---- MODULE Spec2Model ----
(***************************************************************************)
(* Tableau decision procedure for CMAEL(CD): formulas, classification,     *)
(* full / cut-saturated expansion and the three-phase tableau procedure    *)
(* (construction, prestate elimination, state elimination).                *)
(***************************************************************************)
EXTENDS Integers, Sequences, FiniteSets, TLC

(***************************************************************************)
(* Generic helpers on sequences.                                           *)
(***************************************************************************)
Range(s) == {s[i] : i \in DOMAIN s}

MinOf(S) == CHOOSE x \in S : \A y \in S : x <= y

RECURSIVE Flatten(_)
Flatten(ss) == IF ss = <<>> THEN <<>> ELSE Head(ss) \o Flatten(Tail(ss))

(***************************************************************************)
(* types.ts: agents, coalitions, formulas.                                 *)
(* A formula is a tuple whose first element is its kind:                   *)
(*   <<"atom", name>>, <<"not", sub>>, <<"and", left, right>>,             *)
(*   <<"D", coalition, sub>>, <<"C", coalition, sub>>.                     *)
(* A coalition is a sorted, duplicate-free sequence of agents.             *)
(***************************************************************************)
\* The agents of the formulas given to the constructors.
Agents == {"a", "b", "c"}

\* The agent names of the model in the order Array.prototype.sort gives
\* them: the three agents, and the name parseAgent reads in "KaKb p".
AgentOrder == <<"a", "aKb", "b", "c">>

normalizeCoalitionAsWritten(agents) == agents
normalizeCoalition(agents) == SelectSeq(AgentOrder, LAMBDA x : x \in Range(agents))

\* The check of normalizeCoalition: it throws "Coalition must be non-empty".
normalizeCoalitionThrows(agents) == Len(normalizeCoalition(agents)) = 0

Atom(name) == <<"atom", name>>
Not(sub) == <<"not", sub>>
And(left, right) == <<"and", left, right>>
D(coalition, sub) == <<"D", normalizeCoalition(coalition), sub>>
C(coalition, sub) == <<"C", normalizeCoalition(coalition), sub>>
Or(left, right) == Not(And(Not(left), Not(right)))
Implies(left, right) == Not(And(left, Not(right)))
Ka(agent, sub) == D(<<agent>>, sub)

coalitionSubsetAlways(a, b) == TRUE

coalitionSubset(a, b) == \A i \in DOMAIN a : a[i] \in Range(b)
coalitionIntersects(a, b) == \E i \in DOMAIN a : a[i] \in Range(b)

\* coalition.join(",")
RECURSIVE JoinAgents(_)
JoinAgents(c) ==
  IF c = <<>> THEN ""
  ELSE IF Len(c) = 1 THEN c[1]
  ELSE c[1] \o "," \o JoinAgents(Tail(c))

\* A key that prints C like D.
RECURSIVE formulaKeyCLikeD(_)
formulaKeyCLikeD(f) ==
  CASE f[1] = "atom" -> f[2]
    [] f[1] = "not" -> "~" \o formulaKeyCLikeD(f[2])
    [] f[1] = "and" ->
         "(" \o formulaKeyCLikeD(f[2]) \o "&" \o formulaKeyCLikeD(f[3]) \o ")"
    [] f[1] = "D" -> "D{" \o JoinAgents(f[2]) \o "}" \o formulaKeyCLikeD(f[3])
    [] f[1] = "C" -> "D{" \o JoinAgents(f[2]) \o "}" \o formulaKeyCLikeD(f[3])

RECURSIVE formulaKey(_)
formulaKey(f) ==
  CASE f[1] = "atom" -> f[2]
    [] f[1] = "not" -> "~" \o formulaKey(f[2])
    [] f[1] = "and" -> "(" \o formulaKey(f[2]) \o "&" \o formulaKey(f[3]) \o ")"
    [] f[1] = "D" -> "D{" \o JoinAgents(f[2]) \o "}" \o formulaKey(f[3])
    [] f[1] = "C" -> "C{" \o JoinAgents(f[2]) \o "}" \o formulaKey(f[3])

formulaEqual(a, b) == formulaKey(a) = formulaKey(b)

(***************************************************************************)
(* FormulaSet: the insertion-ordered Map<string, Formula> of the class, as *)
(* a sequence of <<key, formula>> entries.                                 *)
(***************************************************************************)
EmptyFS == <<>>

FSKeys(fs) == {fs[i][1] : i \in DOMAIN fs}

FSAdd(fs, f) ==
  LET k == formulaKey(f)
  IN IF k \in FSKeys(fs) THEN fs ELSE Append(fs, <<k, f>>)

FSHas(fs, f) == formulaKey(f) \in FSKeys(fs)

RECURSIVE FSAddAll(_, _)
FSAddAll(fs, formulas) ==
  IF formulas = <<>> THEN fs
  ELSE FSAddAll(FSAdd(fs, Head(formulas)), Tail(formulas))

\* new FormulaSet(formulas)
NewFS(formulas) == FSAddAll(EmptyFS, formulas)

\* toArray() / iteration: the formulas in insertion order
FSToArray(fs) == [i \in DOMAIN fs |-> fs[i][2]]

\* key(): the sorted, joined member keys; two sets have the same key exactly
\* when they have the same member keys, so the key is kept as that set.
FSKey(fs) == FSKeys(fs)

(***************************************************************************)
(* formula.ts                                                              *)
(***************************************************************************)
isEventuality(f) == f[1] = "not" /\ f[2][1] = "C"
isDiamondAnyNegation(f) == f[1] = "not"
isDiamond(f) == f[1] = "not" /\ f[2][1] = "D"
isBox(f) == f[1] = "D"

isPatentlyInconsistentNever(fs) == FALSE

isPatentlyInconsistent(fs) ==
  \E i \in DOMAIN fs :
    LET f == fs[i][2]
    IN IF f[1] = "not" THEN FSHas(fs, f[2]) ELSE FSHas(fs, Not(f))

\* subformulas(f): pre-order collection, skipping what is already collected
RECURSIVE collect(_, _)
collect(result, g) ==
  IF FSHas(result, g) THEN result
  ELSE LET r1 == FSAdd(result, g)
       IN CASE g[1] = "atom" -> r1
            [] g[1] = "not" -> collect(r1, g[2])
            [] g[1] = "and" -> collect(collect(r1, g[2]), g[3])
            [] g[1] = "D" -> collect(r1, g[3])
            [] g[1] = "C" -> collect(r1, g[3])

subformulas(f) == collect(EmptyFS, f)

(***************************************************************************)
(* classify.ts                                                             *)
(***************************************************************************)
classifyFormulaNoReflexivity(f) ==
  CASE f[1] = "atom" -> [type |-> "elementary", components |-> <<>>]
    [] f[1] = "not" ->
         (LET inner == f[2]
          IN CASE inner[1] = "atom" -> [type |-> "elementary", components |-> <<>>]
               [] inner[1] = "not" -> [type |-> "alpha", components |-> <<inner[2]>>]
               [] inner[1] = "and" ->
                    [type |-> "beta", components |-> <<Not(inner[2]), Not(inner[3])>>]
               [] inner[1] = "D" -> [type |-> "elementary", components |-> <<>>]
               [] inner[1] = "C" ->
                    [type |-> "beta",
                     components |-> <<Not(inner[3])>> \o
                       [i \in DOMAIN inner[2] |-> Not(D(<<inner[2][i]>>, inner))]])
    [] f[1] = "and" -> [type |-> "alpha", components |-> <<f[2], f[3]>>]
    [] f[1] = "D" -> [type |-> "alpha", components |-> <<f>>]
    [] f[1] = "C" ->
         [type |-> "alpha",
          components |-> <<f[3]>> \o [i \in DOMAIN f[2] |-> D(<<f[2][i]>>, f)]]

\* The components of ~C_A phi with ~phi last.
classifyFormulaDiamondsFirst(f) ==
  CASE f[1] = "atom" -> [type |-> "elementary", components |-> <<>>]
    [] f[1] = "not" ->
         (LET inner == f[2]
          IN CASE inner[1] = "atom" -> [type |-> "elementary", components |-> <<>>]
               [] inner[1] = "not" -> [type |-> "alpha", components |-> <<inner[2]>>]
               [] inner[1] = "and" ->
                    [type |-> "beta", components |-> <<Not(inner[2]), Not(inner[3])>>]
               [] inner[1] = "D" -> [type |-> "elementary", components |-> <<>>]
               [] inner[1] = "C" ->
                    [type |-> "beta",
                     components |->
                       [i \in DOMAIN inner[2] |-> Not(D(<<inner[2][i]>>, inner))]
                         \o <<Not(inner[3])>>])
    [] f[1] = "and" -> [type |-> "alpha", components |-> <<f[2], f[3]>>]
    [] f[1] = "D" -> [type |-> "alpha", components |-> <<f, f[3]>>]
    [] f[1] = "C" ->
         [type |-> "alpha",
          components |-> <<f[3]>> \o [i \in DOMAIN f[2] |-> D(<<f[2][i]>>, f)]]

classifyFormula(f) ==
  CASE f[1] = "atom" -> [type |-> "elementary", components |-> <<>>]
    [] f[1] = "not" ->
         (LET inner == f[2]
          IN CASE inner[1] = "atom" -> [type |-> "elementary", components |-> <<>>]
               [] inner[1] = "not" -> [type |-> "alpha", components |-> <<inner[2]>>]
               [] inner[1] = "and" ->
                    [type |-> "beta", components |-> <<Not(inner[2]), Not(inner[3])>>]
               [] inner[1] = "D" -> [type |-> "elementary", components |-> <<>>]
               [] inner[1] = "C" ->
                    [type |-> "beta",
                     components |-> <<Not(inner[3])>> \o
                       [i \in DOMAIN inner[2] |-> Not(D(<<inner[2][i]>>, inner))]])
    [] f[1] = "and" -> [type |-> "alpha", components |-> <<f[2], f[3]>>]
    [] f[1] = "D" -> [type |-> "alpha", components |-> <<f, f[3]>>]
    [] f[1] = "C" ->
         [type |-> "alpha",
          components |-> <<f[3]>> \o [i \in DOMAIN f[2] |-> D(<<f[2][i]>>, f)]]

(***************************************************************************)
(* formula.ts: the closure and the extended closure.                       *)
(***************************************************************************)
\* The while loop of closure: the worklist is popped at its end.
RECURSIVE closureLoop(_, _)
closureLoop(result, worklist) ==
  IF worklist = <<>> THEN result
  ELSE LET current == worklist[Len(worklist)]
           rest == SubSeq(worklist, 1, Len(worklist) - 1)
           push(added, cls) ==
             rest
               \o (IF cls.type \in {"alpha", "beta"}
                   THEN SelectSeq(cls.components, LAMBDA comp : ~FSHas(added, comp))
                   ELSE <<>>)
               \o (IF current[1] = "not" /\ current[2][1] = "D"
                      /\ ~FSHas(added, Not(current[2][3]))
                   THEN <<Not(current[2][3])>>
                   ELSE <<>>)
           visit(added) == closureLoop(added, push(added, classifyFormula(current)))
       IN IF FSHas(result, current)
          THEN closureLoop(result, rest)
          ELSE visit(FSAdd(result, current))

closure(f) == closureLoop(EmptyFS, <<f>>)

extendedClosureWithoutNegations(f) == closure(f)
extendedClosure(f) ==
  LET cl == closure(f)
  IN FSAddAll(EmptyFS, Flatten([i \in DOMAIN cl |-> <<cl[i][2], Not(cl[i][2])>>]))

(***************************************************************************)
(* expansion.ts                                                            *)
(***************************************************************************)
isFullyExpanded(fs) ==
  /\ ~isPatentlyInconsistent(fs)
  /\ \A i \in DOMAIN fs :
       LET cls == classifyFormula(fs[i][2])
       IN CASE cls.type = "alpha" ->
                 \A c \in DOMAIN cls.components : FSHas(fs, cls.components[c])
            [] cls.type = "beta" ->
                 \E c \in DOMAIN cls.components : FSHas(fs, cls.components[c])
            [] OTHER -> TRUE

\* Eventualities of the original input first, then the rest.
orderedFormulas(phi, originalGamma) ==
  LET formulas == FSToArray(phi)
      first(f) == isEventuality(f) /\ FSHas(originalGamma, f)
  IN SelectSeq(formulas, first) \o SelectSeq(formulas, LAMBDA f : ~first(f))

\* The modified set, or <<>> for null.
tryAlphaRule(phi, originalGamma) ==
  LET of == orderedFormulas(phi, originalGamma)
      missing(f) == SelectSeq(classifyFormula(f).components, LAMBDA c : ~FSHas(phi, c))
      cand == {i \in DOMAIN of :
                 classifyFormula(of[i]).type = "alpha" /\ missing(of[i]) # <<>>}
  IN IF cand = {} THEN <<>> ELSE FSAddAll(phi, missing(of[MinOf(cand)]))

\* A beta rule that never applies.
tryBetaRuleNever(phi, originalGamma) == <<>>

\* A beta rule whose branches hold the component alone.
tryBetaRuleComponentAlone(phi, originalGamma) ==
  LET of == orderedFormulas(phi, originalGamma)
      cand == {i \in DOMAIN of :
                 LET cls == classifyFormula(of[i])
                 IN /\ cls.type = "beta"
                    /\ ~\E c \in DOMAIN cls.components : FSHas(phi, cls.components[c])}
  IN IF cand = {} THEN <<>>
     ELSE LET comps == classifyFormula(of[MinOf(cand)]).components
          IN [c \in DOMAIN comps |-> NewFS(<<comps[c]>>)]

\* The branches, or <<>> for null.
tryBetaRule(phi, originalGamma) ==
  LET of == orderedFormulas(phi, originalGamma)
      cand == {i \in DOMAIN of :
                 LET cls == classifyFormula(of[i])
                 IN /\ cls.type = "beta"
                    /\ ~\E c \in DOMAIN cls.components : FSHas(phi, cls.components[c])}
  IN IF cand = {} THEN <<>>
     ELSE LET comps == classifyFormula(of[MinOf(cand)]).components
          IN [c \in DOMAIN comps |-> FSAdd(phi, comps[c])]

\* Rule 3 without the record of its applications.
rule3FiresAgain(phi, i, rule3Applied) ==
  LET f == phi[i][2]
  IN /\ isEventuality(f)
     /\ LET cls == classifyFormula(f)
            negPsi == Not(f[2][3])
            otherComponents ==
              SelectSeq(cls.components, LAMBDA comp : ~formulaEqual(comp, negPsi))
        IN /\ cls.type = "beta"
           /\ ~FSHas(phi, negPsi)
           /\ \E c \in DOMAIN otherComponents : FSHas(phi, otherComponents[c])

\* Rule 3 fires for the entry i of phi
rule3Fires(phi, i, rule3Applied) ==
  LET f == phi[i][2]
  IN /\ isEventuality(f)
     /\ LET cls == classifyFormula(f)
            negPsi == Not(f[2][3])
            otherComponents ==
              SelectSeq(cls.components, LAMBDA comp : ~formulaEqual(comp, negPsi))
        IN /\ cls.type = "beta"
           /\ ~FSHas(phi, negPsi)
           /\ <<FSKey(phi), formulaKey(f)>> \notin rule3Applied
           /\ \E c \in DOMAIN otherComponents : FSHas(phi, otherComponents[c])

\* The extra sets and the updated rule3Applied.
tryRule3(phi, originalGamma, rule3Applied) ==
  LET idx == SelectSeq([i \in DOMAIN phi |-> i],
                       LAMBDA i : rule3Fires(phi, i, rule3Applied))
  IN [extras |-> [n \in DOMAIN idx |-> FSAdd(phi, Not(phi[idx[n]][2][2][3]))],
      applied |-> rule3Applied \cup
                    {<<FSKey(phi), phi[idx[n]][1]>> : n \in DOMAIN idx}]

psiCoalition(psi) ==
  CASE psi[1] = "D" -> psi[2]
    [] psi[1] = "not" /\ psi[2][1] = "D" -> psi[2][2]
    [] psi[1] = "not" /\ psi[2][1] = "C" -> psi[2][2]
    [] OTHER -> <<>>

\* A side-condition (C1) that no cut satisfies.
checkC1Never(psi, dAFormula, delta) == FALSE

\* A side-condition (C1) that every cut on a D satisfies.
checkC1Always(psi, dAFormula, delta) == dAFormula[1] = "D"

checkC1(psi, dAFormula, delta) ==
  /\ dAFormula[1] = "D"
  /\ LET A == dAFormula[2]
         B == psiCoalition(psi)
         psiIsDorNegD == psi[1] = "D" \/ (psi[1] = "not" /\ psi[2][1] = "D")
         psiIsNegCB == psi[1] = "not" /\ psi[2][1] = "C"
     IN /\ B # <<>>
        /\ \E i \in DOMAIN delta :
             LET f == delta[i][2]
             IN /\ isDiamond(f)
                /\ LET E == f[2][2]
                   IN \/ psiIsDorNegD /\ coalitionSubset(A, E) /\ coalitionSubset(B, E)
                      \/ psiIsNegCB /\ coalitionSubset(A, E) /\ coalitionIntersects(B, E)

\* A side-condition (C2) that every cut on a C satisfies.
checkC2Always(psi, cAFormula, delta) == cAFormula[1] = "C"

checkC2(psi, cAFormula, delta) ==
  /\ cAFormula[1] = "C"
  /\ LET A == cAFormula[2]
         B == psiCoalition(psi)
         psiIsDorNegD == psi[1] = "D" \/ (psi[1] = "not" /\ psi[2][1] = "D")
         psiIsNegCB == psi[1] = "not" /\ psi[2][1] = "C"
     IN /\ B # <<>>
        /\ \E i \in DOMAIN delta :
             LET f == delta[i][2]
             IN /\ isDiamond(f)
                /\ LET E == f[2][2]
                   IN \/ psiIsDorNegD /\ coalitionSubset(B, E) /\ coalitionIntersects(A, E)
                      \/ psiIsNegCB /\ coalitionIntersects(A, E) /\ coalitionIntersects(B, E)

\* A cut on sub (a subformula of psi) is enabled in phi
cutEnabled(phi, psi, sub, useRestrictedCuts) ==
  \/ /\ sub[1] = "D"
     /\ ~FSHas(phi, sub) /\ ~FSHas(phi, Not(sub))
     /\ (~useRestrictedCuts \/ checkC1(psi, sub, phi))
  \/ /\ sub[1] = "C"
     /\ ~FSHas(phi, sub) /\ ~FSHas(phi, Not(sub))
     /\ (~useRestrictedCuts \/ checkC2(psi, sub, phi))

\* The two branches of the first enabled cut, or <<>> for null.
tryCutRuleNever(phi, useRestrictedCuts) == <<>>

tryCutRule(phi, useRestrictedCuts) ==
  LET subsOf(i) == FSToArray(subformulas(phi[i][2]))
      hits(i) == {j \in DOMAIN subsOf(i) :
                    cutEnabled(phi, phi[i][2], subsOf(i)[j], useRestrictedCuts)}
      cand == {i \in DOMAIN phi : hits(i) # {}}
  IN IF cand = {} THEN <<>>
     ELSE LET i == MinOf(cand)
              sub == subsOf(i)[MinOf(hits(i))]
          IN <<FSAdd(phi, sub), FSAdd(phi, Not(sub))>>

deduplicateSets(sets) ==
  LET firstOfKey(i) == \A j \in 1..(i - 1) : FSKey(sets[j]) # FSKey(sets[i])
      keep == SelectSeq([i \in DOMAIN sets |-> i], firstOfKey)
  IN [n \in DOMAIN keep |-> sets[keep[n]]]

\* The results of a rule kept without the test for patent inconsistency.
consistentOnlyKeepAll(sets) == sets

consistentOnly(sets) == SelectSeq(sets, LAMBDA s : ~isPatentlyInconsistent(s))

\* The body of the for loop of expandCore for one set phi of the family;
\* acc = [nextFamily, extras, rule3Applied, changed].
expandOne(acc, phi, gamma, enableCuts, useRestrictedCuts) ==
  LET step(alphaResult, betaResult, rule3, cutResult) ==
        IF alphaResult # <<>> THEN
          [acc EXCEPT !.nextFamily = @ \o consistentOnly(<<alphaResult>>),
                      !.changed = TRUE]
        ELSE IF betaResult # <<>> THEN
          [acc EXCEPT !.nextFamily = @ \o consistentOnly(betaResult),
                      !.changed = TRUE]
        ELSE IF rule3.extras # <<>> THEN
          [nextFamily |-> Append(acc.nextFamily, phi),
           extras |-> acc.extras \o consistentOnly(rule3.extras),
           rule3Applied |-> rule3.applied,
           changed |-> TRUE]
        ELSE IF cutResult # <<>> THEN
          [acc EXCEPT !.nextFamily = @ \o consistentOnly(cutResult),
                      !.changed = TRUE]
        ELSE [acc EXCEPT !.nextFamily = Append(@, phi)]
  IN step(tryAlphaRule(phi, gamma),
          tryBetaRule(phi, gamma),
          tryRule3(phi, gamma, acc.rule3Applied),
          IF enableCuts THEN tryCutRule(phi, useRestrictedCuts) ELSE <<>>)

\* expandCore up to its while loop: the local variables, with the position
\* in the loops (at = "while": at the test of the while loop; "for": before
\* the iteration i of the for loop; "return": returned).
expandStart(gamma, enableCuts, useRestrictedCuts) ==
  [gamma |-> gamma, enableCuts |-> enableCuts,
   useRestrictedCuts |-> useRestrictedCuts,
   family |-> IF isPatentlyInconsistent(gamma) THEN <<>> ELSE <<gamma>>,
   rule3Applied |-> {},
   changed |-> TRUE,
   nextFamily |-> <<>>, extras |-> <<>>, i |-> 1,
   at |-> IF isPatentlyInconsistent(gamma) THEN "return" ELSE "while"]

\* The test of the while loop, and the head of its body.
expandWhile(e) ==
  IF e.changed
  THEN [e EXCEPT !.changed = FALSE, !.nextFamily = <<>>, !.extras = <<>>,
                 !.i = 1, !.at = "for"]
  ELSE [e EXCEPT !.at = "return"]

\* The iteration of the for loop for family[i].
expandForStep(e) ==
  LET update(acc) == [e EXCEPT !.nextFamily = acc.nextFamily,
                               !.extras = acc.extras,
                               !.rule3Applied = acc.rule3Applied,
                               !.changed = acc.changed,
                               !.i = @ + 1]
  IN update(expandOne([nextFamily |-> e.nextFamily, extras |-> e.extras,
                       rule3Applied |-> e.rule3Applied, changed |-> e.changed],
                      e.family[e.i], e.gamma, e.enableCuts, e.useRestrictedCuts))

\* After the for loop: the extras join the family, which is deduplicated.
expandEndFor(e) ==
  [e EXCEPT !.family = deduplicateSets(e.nextFamily \o e.extras),
            !.changed = e.changed \/ e.extras # <<>>,
            !.at = "while"]

(***************************************************************************)
(* tableau.ts: the graphs.  A Map<NodeId, node> is the sequence of its     *)
(* nodes in insertion order; a NodeId `${prefix}${n}` is <<prefix, n>>.    *)
(***************************************************************************)
freshNodeId(prefix, counter) == <<prefix, counter>>

MapIds(m) == {m[i].id : i \in DOMAIN m}
MapHas(m, id) == id \in MapIds(m)
MapGet(m, id) == m[CHOOSE i \in DOMAIN m : m[i].id = id]

EmptyPretableau ==
  [prestates |-> <<>>, states |-> <<>>, dashedEdges |-> <<>>, solidEdges |-> <<>>]

\* addPrestate: ctx = [pretableau, prestateIndex, nodeCounter]; the result
\* carries the id returned.
addPrestate(ctx, formulas) ==
  LET key == FSKey(formulas)
  IN IF key \in DOMAIN ctx.prestateIndex
     THEN [pretableau |-> ctx.pretableau, prestateIndex |-> ctx.prestateIndex,
           nodeCounter |-> ctx.nodeCounter, id |-> ctx.prestateIndex[key]]
     ELSE LET id == freshNodeId("p", ctx.nodeCounter)
              ps == [id |-> id, formulas |-> formulas, kind |-> "prestate"]
          IN [pretableau |->
                [ctx.pretableau EXCEPT !.prestates = Append(@, ps)],
              prestateIndex |->
                [k \in DOMAIN ctx.prestateIndex \cup {key} |->
                   IF k = key THEN id ELSE ctx.prestateIndex[k]],
              nodeCounter |-> ctx.nodeCounter + 1,
              id |-> id]

\* Rule (SR) minting a state for every expansion, without the lookup.
applySROneFresh(acc, prestate, expansion) ==
  LET key == FSKey(expansion)
      stateId == freshNodeId("s", acc.nodeCounter)
      state == [id |-> stateId, formulas |-> expansion, kind |-> "state"]
      edge == [from |-> prestate.id, to |-> stateId]
  IN [pretableau |->
        [acc.pretableau EXCEPT !.states = Append(@, state),
                               !.dashedEdges = Append(@, edge)],
      stateIndex |->
        [k \in DOMAIN acc.stateIndex \cup {key} |->
           IF k = key THEN stateId ELSE acc.stateIndex[k]],
      nodeCounter |-> acc.nodeCounter + 1,
      newStateIds |-> Append(acc.newStateIds, stateId)]

\* The body of the for loop of applySR for one expansion;
\* acc = [pretableau, stateIndex, nodeCounter, newStateIds].
applySROne(acc, prestate, expansion) ==
  LET key == FSKey(expansion)
      reuse == key \in DOMAIN acc.stateIndex
      stateId == IF reuse THEN acc.stateIndex[key]
                 ELSE freshNodeId("s", acc.nodeCounter)
      state == [id |-> stateId, formulas |-> expansion, kind |-> "state"]
      edge == [from |-> prestate.id, to |-> stateId]
  IN IF reuse
     THEN [acc EXCEPT !.pretableau.dashedEdges = Append(@, edge)]
     ELSE [pretableau |->
             [acc.pretableau EXCEPT !.states = Append(@, state),
                                    !.dashedEdges = Append(@, edge)],
           stateIndex |->
             [k \in DOMAIN acc.stateIndex \cup {key} |->
                IF k = key THEN stateId ELSE acc.stateIndex[k]],
           nodeCounter |-> acc.nodeCounter + 1,
           newStateIds |-> Append(acc.newStateIds, stateId)]

RECURSIVE applySRFor(_, _, _)
applySRFor(acc, prestate, expansions) ==
  IF expansions = <<>> THEN acc
  ELSE applySRFor(applySROne(acc, prestate, Head(expansions)), prestate, Tail(expansions))

\* Rule (SR) once cutSaturatedExpansion has returned expansions:
\* ctx = [pretableau, stateIndex, nodeCounter].
applySR(ctx, prestate, expansions) ==
  applySRFor([pretableau |-> ctx.pretableau, stateIndex |-> ctx.stateIndex,
              nodeCounter |-> ctx.nodeCounter, newStateIds |-> <<>>],
             prestate, expansions)

\* The formulas of the state that rule (DR) copies into the prestate, in the
\* order the loop adds them.
prestateContentNoBoxes(state, diamondFormula) ==
  LET A == diamondFormula[2][2]
      phi == diamondFormula[2][3]
      copied(f) ==
        \/ /\ f[1] = "not" /\ f[2][1] = "D"
           /\ coalitionSubset(f[2][2], A)
           /\ ~formulaEqual(f, diamondFormula)
        \/ f[1] = "not" /\ f[2][1] = "C" /\ coalitionIntersects(f[2][2], A)
  IN FSAddAll(FSAdd(EmptyFS, Not(phi)), SelectSeq(FSToArray(state.formulas), copied))

prestateContent(state, diamondFormula) ==
  LET A == diamondFormula[2][2]
      phi == diamondFormula[2][3]
      copied(f) ==
        \/ f[1] = "D" /\ coalitionSubset(f[2], A)
        \/ /\ f[1] = "not" /\ f[2][1] = "D"
           /\ coalitionSubset(f[2][2], A)
           /\ ~formulaEqual(f, diamondFormula)
        \/ f[1] = "not" /\ f[2][1] = "C" /\ coalitionIntersects(f[2][2], A)
  IN FSAddAll(FSAdd(EmptyFS, Not(phi)), SelectSeq(FSToArray(state.formulas), copied))

\* Rule (DR): ctx = [pretableau, prestateIndex, nodeCounter]; the result
\* carries the id returned (the prestate's, created or reused).
\* The check at the entry of applyDR: it throws "applyDR called with
\* non-diamond formula".
applyDRThrows(diamondFormula) ==
  diamondFormula[1] # "not" \/ diamondFormula[2][1] # "D"

applyDR(ctx, stateId, diamondFormula) ==
  LET state == MapGet(ctx.pretableau.states, stateId)
      prestateFormulas == prestateContent(state, diamondFormula)
      key == FSKey(prestateFormulas)
      added == IF key \in DOMAIN ctx.prestateIndex
               THEN [pretableau |-> ctx.pretableau,
                     prestateIndex |-> ctx.prestateIndex,
                     nodeCounter |-> ctx.nodeCounter,
                     id |-> ctx.prestateIndex[key]]
               ELSE addPrestate(ctx, prestateFormulas)
      edge == [from |-> stateId, to |-> added.id, label |-> diamondFormula]
  IN [added EXCEPT !.pretableau.solidEdges = Append(@, edge)]

\* The (state, diamond) pairs the construction loop queues for the new states.
findDRFirstDiamond(pretableau, newStates) ==
  LET pairsOf(stId) ==
        LET fs == FSToArray(MapGet(pretableau.states, stId).formulas)
            ds == SelectSeq(fs, isDiamond)
        IN IF ds = <<>> THEN <<>>
           ELSE <<[stateId |-> stId, formula |-> ds[1]]>>
  IN Flatten([n \in DOMAIN newStates |-> pairsOf(newStates[n])])

findDR(pretableau, newStates) ==
  LET pairsOf(stId) ==
        LET fs == FSToArray(MapGet(pretableau.states, stId).formulas)
            pending(f) ==
              /\ isDiamond(f)
              /\ ~\E e \in DOMAIN pretableau.solidEdges :
                    /\ pretableau.solidEdges[e].from = stId
                    /\ formulaEqual(pretableau.solidEdges[e].label, f)
            ds == SelectSeq(fs, pending)
        IN [i \in DOMAIN ds |-> [stateId |-> stId, formula |-> ds[i]]]
  IN Flatten([n \in DOMAIN newStates |-> pairsOf(newStates[n])])

\* Rule (PR) following only the first dashed edge of the prestate.
prestateToFirstState(pretableau, psId) ==
  LET mine == SelectSeq(pretableau.dashedEdges, LAMBDA e : e.from = psId)
  IN IF mine = <<>> THEN <<>> ELSE <<mine[1].to>>

\* Rule (PR) following every dashed edge of the prestate, repeated or not.
prestateToStatesRepeated(pretableau, psId) ==
  LET mine == SelectSeq(pretableau.dashedEdges, LAMBDA e : e.from = psId)
  IN [n \in DOMAIN mine |-> mine[n].to]

\* Phase 2, rule (PR).
prestateToStates(pretableau, psId) ==
  LET tos == [i \in DOMAIN pretableau.dashedEdges |-> pretableau.dashedEdges[i]]
      mine == SelectSeq(tos, LAMBDA e : e.from = psId)
      firstTo(i) == \A j \in 1..(i - 1) : mine[j].to # mine[i].to
      keep == SelectSeq([i \in DOMAIN mine |-> i], firstTo)
  IN [n \in DOMAIN keep |-> mine[keep[n]].to]

prestateEliminationPhase(pretableau) ==
  LET edgesOf(edge) ==
        LET targetStates == prestateToStates(pretableau, edge.to)
        IN [n \in DOMAIN targetStates |->
              [from |-> edge.from, to |-> targetStates[n], label |-> edge.label]]
  IN [states |-> pretableau.states,
      edges |-> Flatten([i \in DOMAIN pretableau.solidEdges |->
                           edgesOf(pretableau.solidEdges[i])])]

\* Phase 3.
collectAllEventualitiesNone(states) == <<>>

collectAllEventualities(states) ==
  LET all == Flatten([i \in DOMAIN states |->
                        SelectSeq(FSToArray(states[i].formulas), isEventuality)])
      firstSeen(i) == \A j \in 1..(i - 1) : formulaKey(all[j]) # formulaKey(all[i])
      keep == SelectSeq([i \in DOMAIN all |-> i], firstSeen)
  IN [n \in DOMAIN keep |-> all[keep[n]]]

\* The edges kept without filtering out those of removed states.
liveEdgesAll(states, edges) == edges

liveEdges(states, edges) ==
  SelectSeq(edges, LAMBDA e : MapHas(states, e.from) /\ MapHas(states, e.to))

\* The first formula of the state without a surviving successor, diamond
\* or not.
defectiveFormula(states, edges, state) ==
  LET fs == FSToArray(state.formulas)
      hasSuccessor(f) ==
        \E e \in DOMAIN edges :
          /\ edges[e].from = state.id
          /\ formulaEqual(edges[e].label, f)
          /\ MapHas(states, edges[e].to)
      bad == SelectSeq(fs, LAMBDA f : ~hasSuccessor(f))
  IN IF bad = <<>> THEN <<>> ELSE <<bad[1]>>

\* The first diamond of the state without a surviving successor, or <<>>.
defectiveDiamond(states, edges, state) ==
  LET fs == FSToArray(state.formulas)
      hasSuccessor(f) ==
        \E e \in DOMAIN edges :
          /\ edges[e].from = state.id
          /\ formulaEqual(edges[e].label, f)
          /\ MapHas(states, edges[e].to)
      bad == SelectSeq(fs, LAMBDA f : isDiamond(f) /\ ~hasSuccessor(f))
  IN IF bad = <<>> THEN <<>> ELSE <<bad[1]>>

\* One iteration of the while loop of applyE1UntilFixpoint.
applyE1Pass(states, edges) ==
  LET toRemove == SelectSeq(states, LAMBDA st : defectiveDiamond(states, edges, st) # <<>>)
  IN [states |-> SelectSeq(states, LAMBDA st : defectiveDiamond(states, edges, st) = <<>>),
      records |-> [i \in DOMAIN toRemove |->
                     [stateId |-> toRemove[i].id, rule |-> "E1",
                      formula |-> defectiveDiamond(states, edges, toRemove[i])[1],
                      stateFormulas |-> toRemove[i].formulas]]]

\* The while loop of applyE1UntilFixpoint putting the records of each round
\* in front of those of the rounds before.
RECURSIVE applyE1LoopPrepend(_, _, _)
applyE1LoopPrepend(states, edges, records) ==
  LET pass == applyE1Pass(states, edges)
  IN IF pass.records = <<>> THEN [states |-> states, records |-> records]
     ELSE applyE1LoopPrepend(pass.states, edges, pass.records \o records)

RECURSIVE applyE1Loop(_, _, _)
applyE1Loop(states, edges, records) ==
  LET pass == applyE1Pass(states, edges)
  IN IF pass.records = <<>> THEN [states |-> states, records |-> records]
     ELSE applyE1Loop(pass.states, edges, records \o pass.records)

\* Rule (E1) applied for one round only.
applyE1SinglePass(states, edges) == applyE1Pass(states, edges)

\* Rule (E1) to its fixpoint: the states left and the records.
applyE1UntilFixpoint(states, edges) == applyE1Loop(states, edges, <<>>)

\* One round of the marking loop of applyE2 over statesWithEventuality.
RECURSIVE markRound(_, _, _, _, _)
markRound(marked, ids, states, edges, A) ==
  IF ids = <<>> THEN marked
  ELSE LET id == Head(ids)
           carries ==
             \E e \in DOMAIN edges :
               /\ edges[e].from = id
               /\ MapHas(states, edges[e].to)
               /\ edges[e].to \in marked
               /\ edges[e].label[1] = "not" /\ edges[e].label[2][1] = "D"
               /\ coalitionIntersects(edges[e].label[2][2], A)
       IN markRound(IF id \notin marked /\ carries THEN marked \cup {id} ELSE marked,
                    Tail(ids), states, edges, A)

\* The marking of applyE2 without its fixpoint loop: step 1 only.
markFixpointStep1Only(marked, ids, states, edges, A) == marked

RECURSIVE markFixpoint(_, _, _, _, _)
markFixpoint(marked, ids, states, edges, A) ==
  LET next == markRound(marked, ids, states, edges, A)
  IN IF next = marked THEN marked ELSE markFixpoint(next, ids, states, edges, A)

\* Rule (E2) that eliminates nothing.
\* The check at the entry of applyE2: it throws "applyE2 called with
\* non-eventuality".
applyE2Throws(eventuality) ==
  eventuality[1] # "not" \/ eventuality[2][1] # "C"

applyE2None(states, edges, eventuality) == [states |-> states, records |-> <<>>]

\* Rule (E2) for one eventuality: the states left and the records.
applyE2(states, edges, eventuality) ==
  LET A == eventuality[2][2]
      negPhi == Not(eventuality[2][3])
      withEv == SelectSeq(states, LAMBDA st : FSHas(st.formulas, eventuality))
      statesWithEventuality == [i \in DOMAIN withEv |-> withEv[i].id]
      step1 == {states[i].id : i \in {j \in DOMAIN states : FSHas(states[j].formulas, negPhi)}}
      marked == markFixpoint(step1, statesWithEventuality, states, edges, A)
      gone == SelectSeq(withEv, LAMBDA st : st.id \notin marked)
  IN [states |-> SelectSeq(states, LAMBDA st :
                    ~(FSHas(st.formulas, eventuality) /\ st.id \notin marked)),
      records |-> [i \in DOMAIN gone |->
                     [stateId |-> gone[i].id, rule |-> "E2",
                      formula |-> eventuality,
                      stateFormulas |-> gone[i].formulas]]]

\* The TableauResult of a Phase 3 that deletes from the Map of the initial
\* tableau itself: the initial tableau is returned with the states left.
tableauResultSharedStates(satisfiable, restricted, pretableau, initialTableau, finalTableau, inputFormula, eliminations) ==
  [satisfiable |-> satisfiable,
   restricted |-> restricted,
   pretableau |-> pretableau,
   initialTableau |-> [states |-> finalTableau.states, edges |-> initialTableau.edges],
   finalTableau |-> finalTableau,
   inputFormula |-> inputFormula,
   eliminations |-> eliminations]

\* The TableauResult runTableau returns, with the cut mode of the call.
tableauResult(satisfiable, restricted, pretableau, initialTableau, finalTableau, inputFormula, eliminations) ==
  [satisfiable |-> satisfiable,
   restricted |-> restricted,
   pretableau |-> pretableau,
   initialTableau |-> initialTableau,
   finalTableau |-> finalTableau,
   inputFormula |-> inputFormula,
   eliminations |-> eliminations]

\* A verdict that only asks whether a state survives.
isOpenAnySurvivor(finalTableau, th) == finalTableau.states # <<>>

\* The verdict of runTableau: some surviving state contains theta.
isOpen(finalTableau, th) ==
  \E i \in DOMAIN finalTableau.states : FSHas(finalTableau.states[i].formulas, th)

(***************************************************************************)
(* The inputs: every chain of at most MaxChain unary operators over an     *)
(* atom, the formulas of tests/examples.test.ts, and formulas that make    *)
(* Phase 3 eliminate states in each of its ways.                           *)
(***************************************************************************)
MaxChain == 2

\* The node counter is capped: no session on an input of Thetas mints this
\* many NodeIds, a nested call included.
MaxNodes == 64

Coalitions == {<<"a">>, <<"b">>, <<"a", "b">>}

RECURSIVE Chains(_)
Chains(n) ==
  IF n = 0 THEN {Atom("p")}
  ELSE LET prev == Chains(n - 1)
       IN prev \cup {Not(f) : f \in prev}
               \cup {D(A, f) : A \in Coalitions, f \in prev}
               \cup {C(A, f) : A \in Coalitions, f \in prev}

\* Paper Example 3: unsatisfiable, every state is eliminated.
Example3 ==
  And(Not(D(<<"a", "c">>, C(<<"a", "b">>, Atom("p")))),
      C(<<"a", "b">>, And(Atom("p"), Atom("q"))))

\* Paper Example 4: unsatisfiable, states survive but none contains theta.
Example4 ==
  And(Not(D(<<"a", "b">>, Atom("p"))),
      Not(D(<<"a", "c">>, Not(Ka("a", Atom("p"))))))

TestFormulas ==
  { Example3, Example4,
    Atom("p"),
    Not(Atom("p")),
    Ka("a", Atom("p")),
    Not(Ka("a", Atom("p"))),
    C(<<"a", "b">>, Atom("p")),
    And(Ka("a", Atom("p")), Not(Ka("b", Atom("p")))),
    And(Atom("p"), Not(Atom("p"))),
    And(Ka("a", Atom("p")), Not(Ka("a", Atom("p")))),
    And(Ka("a", Not(Atom("p"))), Ka("a", Atom("p"))),
    And(Ka("a", Atom("p")), Not(Atom("p"))),
    And(Ka("a", Atom("p")), Not(D(<<"a", "b">>, Atom("p")))),
    And(D(<<"a", "b">>, Atom("p")), Not(Ka("a", Atom("p")))),
    And(C(<<"a", "b">>, Atom("p")), Not(Ka("a", Atom("p")))),
    And(C(<<"b", "a">>, Atom("p")), Not(Ka("b", Atom("p")))) }

\* (E1) needs two rounds: the only successor of the first state is itself
\* eliminated by (E1).
TwoRoundsE1 ==
  Not(D(<<"c">>, Not(And(Ka("a", Atom("p")), Not(D(<<"a", "b">>, Atom("p")))))))

\* Phase 3 eliminates a state in its second pass over the eventualities.
TwoPasses ==
  Not(C(<<"b">>, D(<<"a", "b">>, D(<<"a", "b">>, Ka("b", Atom("p"))))))

EliminationFormulas ==
  { TwoRoundsE1, TwoPasses,
    Not(C(<<"a">>, Ka("a", Atom("p")))),        \* (E2) eliminates, states survive
    Not(Ka("a", Ka("a", Atom("p")))),           \* (E1) eliminates, states survive
    Not(Ka("b", Ka("a", Atom("p")))),           \* the cut modes build different graphs
    Not(C(<<"a">>, C(<<"a">>, Atom("p")))),     \* two eventualities
    Not(And(Ka("a", Atom("p")), C(<<"a">>, Atom("p")))),
    Not(And(C(<<"b">>, Atom("p")), Atom("p"))),
    Or(Atom("p"), Atom("q")) }

\* The validities the test suite checks on one instance each, for every
\* coalition, member and chain phi: C_A phi -> D_a phi, D_A phi -> phi and
\* the contradiction phi /\ ~phi; and K_x r /\ ~K_y r for agents x # y.
Atoms == {Atom("p"), Atom("q")}

CommonImpliesMember ==
  UNION {{And(C(A, f), Not(D(<<A[i]>>, f))) : i \in DOMAIN A} :
           A \in Coalitions, f \in Chains(MaxChain - 1)}

Veridicality ==
  {And(D(A, f), Not(f)) : A \in Coalitions, f \in Chains(MaxChain - 1)}

Contradictions == {And(f, Not(f)) : f \in Chains(MaxChain - 1) \cup Atoms}

DifferentKnowledge ==
  {And(Ka(xy[1], r), Not(Ka(xy[2], r))) :
     xy \in {ab \in Agents \X Agents : ab[1] # ab[2]},
     r \in Atoms}

LawFormulas ==
  CommonImpliesMember \cup Veridicality \cup Contradictions
    \cup DifferentKnowledge

Thetas ==
  Chains(MaxChain) \cup TestFormulas \cup EliminationFormulas \cup LawFormulas

(***************************************************************************)
(* The state of a session that calls runTableau(theta, true) and then      *)
(* runTableau(theta, false), as the test suite does.                       *)
(***************************************************************************)
VARIABLES
  theta,             \* the input formula
  useRestrictedCuts, \* the mode of the current call
  pc,                \* the position in runTableau
  nodeCounter,       \* the module-level counter of freshNodeId
  pretableau,        \* constructionPhase: the pretableau under construction
  prestateIndex,     \* constructionPhase: key -> NodeId of the prestates
  stateIndex,        \* constructionPhase: key -> NodeId of the states
  queues,            \* constructionPhase: prestatesToExpand, statesToExpand,
                     \* newStates, newPrestates and the position in the for loop
  expansion,         \* expandCore: gamma, enableCuts, useRestrictedCuts, family,
                     \* rule3Applied, changed, nextFamily, extras, and the
                     \* position in its loops
  initialTableau,    \* the result of prestateEliminationPhase
  states,            \* stateEliminationPhase: the mutable copy of the states
  edges,             \* stateEliminationPhase: the mutable copy of the edges
  eliminations,      \* stateEliminationPhase: the elimination trace
  cycle,             \* stateEliminationPhase: allEventualities, the position
                     \* in the for loop, removedInCycle, and the number of
                     \* states when the current pass began
  results,           \* the TableauResults returned so far
  api,               \* the call a user of types.ts makes, and its outcome
  calls,             \* the runTableau calls of the session: mode and onProgress
  progress,          \* the values passed to onProgress by the current call
  stack,             \* the outer call while its observer is running a nested call
  cli                \* the interactive command line: its flags, stdin, output and exit

vars == <<theta, useRestrictedCuts, pc, nodeCounter, pretableau, prestateIndex,
          stateIndex, queues, expansion, initialTableau, states, edges,
          eliminations, cycle, results,
          api,
          calls,
          progress,
          stack,
          cli>>

EmptyIndex == [k \in {} |-> <<>>]
EmptyTableau == [states |-> <<>>, edges |-> <<>>]
NoQueues == [prestatesToExpand |-> <<>>, statesToExpand |-> <<>>,
             newStates |-> <<>>, newPrestates |-> <<>>, i |-> 1]
NoExpansion == [gamma |-> <<>>, enableCuts |-> FALSE, useRestrictedCuts |-> TRUE,
                family |-> <<>>, rule3Applied |-> {}, changed |-> FALSE,
                nextFamily |-> <<>>, extras |-> <<>>, i |-> 1, at |-> "return"]
NoCycle == [allEventualities |-> <<>>, i |-> 1, removedInCycle |-> FALSE,
            statesAtStart |-> 0]
NoTheta == <<"none">>
NoCall == [op |-> "none", args |-> <<>>, result |-> <<>>]
NoCli == [at |-> "none"]

\* The modes of the calls of the session, in order.
Modes == <<TRUE, FALSE>>

\* The stage strings runTableau passes to onProgress, in the order of its
\* four calls of it.
Stages == <<"Phase 1: Construction", "Phase 2: Prestate Elimination",
            "Phase 3: State Elimination", "Checking Satisfiability">>

\* resetNodeCounter(): the value nodeCounter has after it.
resetNodeCounterNever == nodeCounter
resetNodeCounter == 0

\* The onProgress argument of the call in progress: "none" when the caller
\* passed none (as the observer's nested call does), "log" for an observer
\* that records the stage, "nested" for one that records it and, at the
\* first stage, calls runTableau(theta, useRestrictedCuts) itself.
Observer ==
  IF stack # <<>> \/ Len(results) >= Len(calls)
  THEN "none"
  ELSE calls[Len(results) + 1].onProgress

\* if (onProgress) onProgress(stage): what the observer has received.
onProgressTwice(observer, received, stage) ==
  IF observer = "none" THEN received ELSE Append(Append(received, stage), stage)
onProgress(observer, received, stage) ==
  IF observer = "none" THEN received ELSE Append(received, stage)

Init ==
  /\ theta \in Thetas
  /\ useRestrictedCuts = TRUE
  /\ pc = "idle"
  /\ nodeCounter = 0
  /\ pretableau = EmptyPretableau
  /\ prestateIndex = EmptyIndex
  /\ stateIndex = EmptyIndex
  /\ queues = NoQueues
  /\ expansion = NoExpansion
  /\ initialTableau = EmptyTableau
  /\ states = <<>>
  /\ edges = <<>>
  /\ eliminations = <<>>
  /\ cycle = NoCycle
  /\ results = <<>>
  /\ api = NoCall
  /\ calls = [i \in DOMAIN Modes |->
               [useRestrictedCuts |-> Modes[i], onProgress |-> "none"]]
  /\ progress = <<>>
  /\ stack = <<>>
  /\ cli = NoCli

\* runTableau is called: resetNodeCounter, the first onProgress, and
\* constructionPhase up to its while loop.  When the observer makes its
\* nested call, the outer call waits inside onProgress and it is the nested
\* call that resets the counter again and enters constructionPhase.
CallRunTableau ==
  /\ pc = "idle"
  /\ Len(results) < Len(calls)
  /\ LET call == calls[Len(results) + 1]
         added == addPrestate([pretableau |-> EmptyPretableau,
                               prestateIndex |-> EmptyIndex,
                               nodeCounter |-> resetNodeCounter],
                              NewFS(<<theta>>))
     IN /\ useRestrictedCuts' = call.useRestrictedCuts
        /\ progress' = onProgress(call.onProgress, <<>>, Stages[1])
        /\ stack' = IF call.onProgress = "nested" THEN <<Stages[1]>> ELSE <<>>
        /\ pretableau' = added.pretableau
        /\ prestateIndex' = added.prestateIndex
        /\ nodeCounter' = added.nodeCounter
        /\ queues' = [NoQueues EXCEPT !.prestatesToExpand = <<added.id>>]
  /\ stateIndex' = EmptyIndex
  /\ expansion' = NoExpansion
  /\ initialTableau' = EmptyTableau
  /\ states' = <<>>
  /\ edges' = <<>>
  /\ eliminations' = <<>>
  /\ cycle' = NoCycle
  /\ pc' = "while"
  /\ UNCHANGED <<cli, calls, api, theta, results>>

\* The condition of the while loop of constructionPhase.
ConstructionLoop ==
  /\ pc = "while"
  /\ IF Len(queues.prestatesToExpand) > 0 \/ Len(queues.statesToExpand) > 0
     THEN /\ pc' = "SR"
          /\ queues' = [queues EXCEPT !.newStates = <<>>, !.i = 1]
     ELSE /\ pc' = "PR"
          /\ UNCHANGED queues
  /\ UNCHANGED <<cli, stack, progress, calls, api, theta, useRestrictedCuts, nodeCounter, pretableau, prestateIndex,
                 stateIndex, expansion, initialTableau, states, edges,
                 eliminations, cycle, results>>

\* applySR for the next pending prestate calls cutSaturatedExpansion, which
\* enters expandCore.
BeginSR ==
  /\ pc = "SR"
  /\ queues.i <= Len(queues.prestatesToExpand)
  /\ expansion' =
       expandStart(MapGet(pretableau.prestates,
                          queues.prestatesToExpand[queues.i]).formulas,
                   TRUE, useRestrictedCuts)
  /\ pc' = "SR.expand"
  /\ UNCHANGED <<cli, stack, progress, calls, api, theta, useRestrictedCuts, nodeCounter, pretableau, prestateIndex,
                 stateIndex, queues, initialTableau, states, edges, eliminations,
                 cycle, results>>

\* The test of the while loop of expandCore.
ExpandWhile ==
  /\ pc \in {"SR.expand", "expand"}
  /\ expansion.at = "while"
  /\ expansion' = expandWhile(expansion)
  /\ UNCHANGED <<cli, stack, progress, calls, api, theta, useRestrictedCuts, pc, nodeCounter, pretableau,
                 prestateIndex, stateIndex, queues, initialTableau, states, edges,
                 eliminations, cycle, results>>

\* One iteration of the for loop of expandCore.
ExpandFor ==
  /\ pc \in {"SR.expand", "expand"}
  /\ expansion.at = "for"
  /\ expansion.i <= Len(expansion.family)
  /\ expansion' = expandForStep(expansion)
  /\ UNCHANGED <<cli, stack, progress, calls, api, theta, useRestrictedCuts, pc, nodeCounter, pretableau,
                 prestateIndex, stateIndex, queues, initialTableau, states, edges,
                 eliminations, cycle, results>>

\* The end of the for loop of expandCore.
ExpandEndFor ==
  /\ pc \in {"SR.expand", "expand"}
  /\ expansion.at = "for"
  /\ expansion.i > Len(expansion.family)
  /\ expansion' = expandEndFor(expansion)
  /\ UNCHANGED <<cli, stack, progress, calls, api, theta, useRestrictedCuts, pc, nodeCounter, pretableau,
                 prestateIndex, stateIndex, queues, initialTableau, states, edges,
                 eliminations, cycle, results>>

\* expandCore has returned: the rest of applySR, and the step of the for loop.
EndSR ==
  /\ pc = "SR.expand"
  /\ expansion.at = "return"
  /\ nodeCounter < MaxNodes
  /\ LET ps == MapGet(pretableau.prestates, queues.prestatesToExpand[queues.i])
         r == applySR([pretableau |-> pretableau, stateIndex |-> stateIndex,
                       nodeCounter |-> nodeCounter], ps, expansion.family)
     IN /\ pretableau' = r.pretableau
        /\ stateIndex' = r.stateIndex
        /\ nodeCounter' = r.nodeCounter
        /\ queues' = [queues EXCEPT !.newStates = @ \o r.newStateIds, !.i = @ + 1]
  /\ pc' = "SR"
  /\ UNCHANGED <<cli, stack, progress, calls, api, theta, useRestrictedCuts, prestateIndex, expansion, initialTableau,
                 states, edges, eliminations, cycle, results>>

\* After the SR loop: the (DR) applications of the new states are queued.
FindDR ==
  /\ pc = "SR"
  /\ queues.i > Len(queues.prestatesToExpand)
  /\ queues' = [queues EXCEPT !.prestatesToExpand = <<>>,
                              !.statesToExpand = findDR(pretableau, queues.newStates),
                              !.newPrestates = <<>>,
                              !.i = 1]
  /\ pc' = "DR"
  /\ UNCHANGED <<cli, stack, progress, calls, api, theta, useRestrictedCuts, nodeCounter, pretableau, prestateIndex,
                 stateIndex, expansion, initialTableau, states, edges,
                 eliminations, cycle, results>>

\* Rule (DR) for the next pending (state, diamond) pair.
ApplyDR ==
  /\ pc = "DR"
  /\ queues.i <= Len(queues.statesToExpand)
  /\ nodeCounter < MaxNodes
  /\ LET job == queues.statesToExpand[queues.i]
         r == applyDR([pretableau |-> pretableau, prestateIndex |-> prestateIndex,
                       nodeCounter |-> nodeCounter], job.stateId, job.formula)
     IN IF applyDRThrows(job.formula)
        THEN /\ pc' = "thrown"
             /\ UNCHANGED <<pretableau, prestateIndex, nodeCounter, queues>>
        ELSE /\ pretableau' = r.pretableau
             /\ prestateIndex' = r.prestateIndex
             /\ nodeCounter' = r.nodeCounter
             /\ queues' = [queues EXCEPT !.newPrestates = Append(@, r.id),
                                         !.i = @ + 1]
             /\ UNCHANGED pc
  /\ UNCHANGED <<cli, stack, progress, calls, api, theta, useRestrictedCuts, stateIndex, expansion, initialTableau,
                 states, edges, eliminations, cycle, results>>

\* After the DR loop: prestatesToExpand = newPrestates.
EndDR ==
  /\ pc = "DR"
  /\ queues.i > Len(queues.statesToExpand)
  /\ queues' = [queues EXCEPT !.prestatesToExpand = queues.newPrestates, !.i = 1]
  /\ pc' = "while"
  /\ UNCHANGED <<cli, stack, progress, calls, api, theta, useRestrictedCuts, nodeCounter, pretableau, prestateIndex,
                 stateIndex, expansion, initialTableau, states, edges,
                 eliminations, cycle, results>>

\* The second onProgress, Phase 2, the third onProgress, and
\* stateEliminationPhase up to its branch on allEventualities.
PrestateElimination ==
  /\ pc = "PR"
  /\ LET t == prestateEliminationPhase(pretableau)
         evs == collectAllEventualities(t.states)
     IN /\ initialTableau' = t
        /\ states' = t.states
        /\ edges' = t.edges
        /\ cycle' = [allEventualities |-> evs, i |-> 1, removedInCycle |-> TRUE,
                     statesAtStart |-> Len(t.states)]
        /\ pc' = IF evs = <<>> THEN "E1only" ELSE "cycle"
  /\ eliminations' = <<>>
  /\ progress' = onProgress(Observer, onProgress(Observer, progress, Stages[2]),
                            Stages[3])
  /\ UNCHANGED <<cli, stack, calls, api, theta, useRestrictedCuts, nodeCounter, pretableau, prestateIndex,
                 stateIndex, queues, expansion, results>>

\* No eventualities: (E1) to its fixpoint, and stateEliminationPhase returns.
NoEventualities ==
  /\ pc = "E1only"
  /\ LET r == applyE1UntilFixpoint(states, edges)
     IN /\ states' = r.states
        /\ eliminations' = eliminations \o r.records
        /\ edges' = liveEdges(r.states, edges)
  /\ pc' = "verdict"
  /\ UNCHANGED <<cli, stack, progress, calls, api, theta, useRestrictedCuts, nodeCounter, pretableau, prestateIndex,
                 stateIndex, queues, expansion, initialTableau, cycle, results>>

\* The condition of the while loop of stateEliminationPhase; on exit the
\* edges are filtered and stateEliminationPhase returns.
CycleLoop ==
  /\ pc = "cycle"
  /\ IF cycle.removedInCycle
     THEN /\ cycle' = [cycle EXCEPT !.removedInCycle = FALSE, !.i = 1,
                                    !.statesAtStart = Len(states)]
          /\ pc' = "E2"
          /\ UNCHANGED edges
     ELSE /\ edges' = liveEdges(states, edges)
          /\ pc' = "verdict"
          /\ UNCHANGED cycle
  /\ UNCHANGED <<cli, stack, progress, calls, api, theta, useRestrictedCuts, nodeCounter, pretableau, prestateIndex,
                 stateIndex, queues, expansion, initialTableau, states,
                 eliminations, results>>

\* Rule (E2) for the next eventuality.
ApplyE2 ==
  /\ pc = "E2"
  /\ LET r == applyE2(states, edges, cycle.allEventualities[cycle.i])
     IN IF applyE2Throws(cycle.allEventualities[cycle.i])
        THEN /\ pc' = "thrown"
             /\ UNCHANGED <<states, eliminations, cycle, edges>>
        ELSE /\ pc' = "E1"
             /\ IF Len(r.records) > 0
                THEN /\ states' = r.states
                     /\ eliminations' = eliminations \o r.records
                     /\ cycle' = [cycle EXCEPT !.removedInCycle = TRUE]
                     /\ edges' = liveEdges(r.states, edges)
                ELSE UNCHANGED <<states, eliminations, cycle, edges>>
  /\ UNCHANGED <<cli, stack, progress, calls, api, theta, useRestrictedCuts, nodeCounter, pretableau, prestateIndex,
                 stateIndex, queues, expansion, initialTableau, results>>

\* Rule (E1) to its fixpoint after (E2), and the step of the for loop.
ApplyE1 ==
  /\ pc = "E1"
  /\ LET r == applyE1UntilFixpoint(states, edges)
         removed == Len(r.records) > 0
     IN /\ states' = r.states
        /\ eliminations' = eliminations \o r.records
        /\ edges' = IF removed THEN liveEdges(r.states, edges) ELSE edges
        /\ cycle' = [cycle EXCEPT !.removedInCycle = @ \/ removed, !.i = @ + 1]
  /\ pc' = IF cycle.i < Len(cycle.allEventualities) THEN "E2" ELSE "cycle"
  /\ UNCHANGED <<cli, stack, progress, calls, api, theta, useRestrictedCuts, nodeCounter, pretableau, prestateIndex,
                 stateIndex, queues, expansion, initialTableau, results>>

\* The fourth onProgress and the verdict, and runTableau returns its
\* TableauResult: to the session, or, for a nested call, to the observer,
\* which drops it.
Verdict ==
  /\ pc = "verdict"
  /\ LET finalTableau == [states |-> states, edges |-> edges]
         result == tableauResult(isOpen(finalTableau, theta), useRestrictedCuts,
                                 pretableau, initialTableau, finalTableau,
                                 theta, eliminations)
     IN IF stack = <<>>
        THEN /\ results' = Append(results, result)
             /\ progress' = onProgress(Observer, progress, Stages[4])
             /\ pc' = "idle"
        ELSE /\ pc' = "observer"
             /\ UNCHANGED <<results, progress>>
  /\ UNCHANGED <<cli, stack, calls, api, theta, useRestrictedCuts, nodeCounter, pretableau, prestateIndex,
                 stateIndex, queues, expansion, initialTableau, states, edges,
                 eliminations, cycle>>

\* The observer's nested call has returned and so does the observer: the
\* outer call goes on after its first onProgress, into constructionPhase up
\* to its while loop, with nodeCounter as the nested call left it.
ObserverReturns ==
  /\ pc = "observer"
  /\ stack # <<>>
  /\ LET added == addPrestate([pretableau |-> EmptyPretableau,
                               prestateIndex |-> EmptyIndex,
                               nodeCounter |-> nodeCounter],
                              NewFS(<<theta>>))
     IN /\ pretableau' = added.pretableau
        /\ prestateIndex' = added.prestateIndex
        /\ nodeCounter' = added.nodeCounter
        /\ queues' = [NoQueues EXCEPT !.prestatesToExpand = <<added.id>>]
  /\ stack' = <<>>
  /\ stateIndex' = EmptyIndex
  /\ expansion' = NoExpansion
  /\ initialTableau' = EmptyTableau
  /\ states' = <<>>
  /\ edges' = <<>>
  /\ eliminations' = <<>>
  /\ cycle' = NoCycle
  /\ pc' = "while"
  /\ UNCHANGED <<cli, progress, calls, api, theta, useRestrictedCuts, results>>

Next ==
  \/ CallRunTableau
  \/ ConstructionLoop
  \/ BeginSR
  \/ ExpandWhile
  \/ ExpandFor
  \/ ExpandEndFor
  \/ EndSR
  \/ FindDR
  \/ ApplyDR
  \/ EndDR
  \/ PrestateElimination
  \/ NoEventualities
  \/ CycleLoop
  \/ ApplyE2
  \/ ApplyE1
  \/ Verdict

Spec == Init /\ [][Next]_vars

\* The session has a next step: the disjunction of the guards of the actions
\* of Next, that is ENABLED <<Next>>_vars.
Running ==
  \/ pc = "idle" /\ Len(results) < Len(calls)
  \/ pc \in {"while", "SR", "PR", "E1only", "cycle", "E2", "E1", "verdict"}
  \/ pc = "SR.expand" /\ expansion.at \in {"while", "for"}
  \/ pc = "SR.expand" /\ expansion.at = "return" /\ nodeCounter < MaxNodes
  \/ pc = "DR" /\ queues.i <= Len(queues.statesToExpand) /\ nodeCounter < MaxNodes
  \/ pc = "DR" /\ queues.i > Len(queues.statesToExpand)

\* runTableau is sequential code: a call that has a next step takes it.
\* This is weak fairness of Next, WF_vars(Next), with ENABLED <<Next>>_vars
\* written out as Running and <<Next>>_vars as <<TRUE>>_vars: under
\* [][Next]_vars every step that changes vars is a step of Next.
FairSpec == Spec /\ ([]<>~Running \/ []<><<TRUE>>_vars)

(***************************************************************************)
(* A session that calls runTableau twice in the same mode, the first call  *)
(* without an observer, with one that logs, or with one that makes a       *)
(* nested call, and the second call with an observer that logs.            *)
(***************************************************************************)
ObservedSessions ==
  {<<[useRestrictedCuts |-> m, onProgress |-> o],
     [useRestrictedCuts |-> m, onProgress |-> "log"]>> :
     m \in BOOLEAN, o \in {"none", "log", "nested"}}

InitObserved ==
  /\ theta \in Thetas
  /\ calls \in ObservedSessions
  /\ useRestrictedCuts = TRUE
  /\ pc = "idle"
  /\ nodeCounter = 0
  /\ pretableau = EmptyPretableau
  /\ prestateIndex = EmptyIndex
  /\ stateIndex = EmptyIndex
  /\ queues = NoQueues
  /\ expansion = NoExpansion
  /\ initialTableau = EmptyTableau
  /\ states = <<>>
  /\ edges = <<>>
  /\ eliminations = <<>>
  /\ cycle = NoCycle
  /\ results = <<>>
  /\ api = NoCall
  /\ progress = <<>>
  /\ stack = <<>>
  /\ cli = NoCli

NextObserved ==
  \/ Next
  \/ ObserverReturns

SpecObserved == InitObserved /\ [][NextObserved]_vars

(***************************************************************************)
(* The expansion procedure on its own: one call of fullExpansion or of     *)
(* cutSaturatedExpansion on a set of formulas.                             *)
(***************************************************************************)
\* Sets in which a box D_a delta has a D or a C below a conjunction of
\* delta, beside a diamond for the coalition {a, b} or for {c}.
BoxOverCut ==
  {NewFS(<<D(<<"a">>, Not(And(chi, Atom("q")))), Not(D(E, Atom("r")))>>) :
     chi \in {D(<<"b">>, Atom("p")), C(<<"b">>, Atom("p"))},
     E \in {<<"a", "b">>, <<"c">>}}

Gammas ==
  {NewFS(<<f>>) : f \in Thetas}
    \cup {NewFS(<<f, g>>) : f \in Chains(MaxChain - 1), g \in Chains(MaxChain - 1)}
    \cup BoxOverCut

InitExpand ==
  /\ theta = NoTheta
  /\ useRestrictedCuts = TRUE
  /\ pc = "expand.idle"
  /\ nodeCounter = 0
  /\ pretableau = EmptyPretableau
  /\ prestateIndex = EmptyIndex
  /\ stateIndex = EmptyIndex
  /\ queues = NoQueues
  /\ expansion = NoExpansion
  /\ initialTableau = EmptyTableau
  /\ states = <<>>
  /\ edges = <<>>
  /\ eliminations = <<>>
  /\ cycle = NoCycle
  /\ results = <<>>
  /\ api = NoCall
  /\ calls = <<>>
  /\ progress = <<>>
  /\ stack = <<>>
  /\ cli = NoCli

\* fullExpansion(gamma)
CallFullExpansion ==
  /\ pc = "expand.idle"
  /\ \E gamma \in Gammas : expansion' = expandStart(gamma, FALSE, TRUE)
  /\ pc' = "expand"
  /\ UNCHANGED <<cli, stack, progress, calls, api, theta, useRestrictedCuts, nodeCounter, pretableau, prestateIndex,
                 stateIndex, queues, initialTableau, states, edges, eliminations,
                 cycle, results>>

\* cutSaturatedExpansion(gamma, restricted)
CallCutSaturatedExpansion ==
  /\ pc = "expand.idle"
  /\ \E gamma \in Gammas, restricted \in BOOLEAN :
       expansion' = expandStart(gamma, TRUE, restricted)
  /\ pc' = "expand"
  /\ UNCHANGED <<cli, stack, progress, calls, api, theta, useRestrictedCuts, nodeCounter, pretableau, prestateIndex,
                 stateIndex, queues, initialTableau, states, edges, eliminations,
                 cycle, results>>

\* expandCore returns its family.
ExpandReturn ==
  /\ pc = "expand"
  /\ expansion.at = "return"
  /\ pc' = "expand.returned"
  /\ UNCHANGED <<cli, stack, progress, calls, api, theta, useRestrictedCuts, nodeCounter, pretableau, prestateIndex,
                 stateIndex, queues, expansion, initialTableau, states, edges,
                 eliminations, cycle, results>>

NextExpand ==
  \/ CallFullExpansion
  \/ CallCutSaturatedExpansion
  \/ ExpandWhile
  \/ ExpandFor
  \/ ExpandEndFor
  \/ ExpandReturn

SpecExpand == InitExpand /\ [][NextExpand]_vars

\* A call of the expansion has a next step: ENABLED <<NextExpand>>_vars.
RunningExpand == pc \in {"expand.idle", "expand"}

\* expandCore is sequential code: weak fairness of NextExpand, written out
\* as for FairSpec.
FairSpecExpand ==
  SpecExpand /\ ([]<>~RunningExpand \/ []<><<TRUE>>_vars)

(***************************************************************************)
(* A caller of types.ts: it builds formulas with the constructors, from    *)
(* coalitions as it wrote them (any order, repeated agents), and compares  *)
(* them with formulaEqual.                                                 *)
(***************************************************************************)
MaxKeyDepth == 1

\* Coalitions as a caller writes them.
WrittenCoalitions == {<<"a">>, <<"a", "b">>, <<"b", "a">>, <<"a", "a">>}

\* Constructor calls: <<"atom", name>>, <<"not", sub>>, <<"and", left, right>>,
\* <<"D", agents, sub>>, <<"C", agents, sub>> with the agents as written.
RECURSIVE ConstructorCalls(_)
ConstructorCalls(n) ==
  IF n = 0 THEN {<<"atom", "p">>, <<"atom", "D">>}
  ELSE LET prev == ConstructorCalls(n - 1)
       IN prev \cup {<<"not", f>> : f \in prev}
               \cup {<<"and", f, g>> : f \in prev, g \in prev}
               \cup {<<"D", A, f>> : A \in WrittenCoalitions, f \in prev}
               \cup {<<"C", A, f>> : A \in WrittenCoalitions, f \in prev}

\* The formula the constructor calls return.
RECURSIVE Construct(_)
Construct(call) ==
  CASE call[1] = "atom" -> Atom(call[2])
    [] call[1] = "not" -> Not(Construct(call[2]))
    [] call[1] = "and" -> And(Construct(call[2]), Construct(call[3]))
    [] call[1] = "D" -> D(call[2], Construct(call[3]))
    [] call[1] = "C" -> C(call[2], Construct(call[3]))

InitTypes ==
  /\ theta = NoTheta
  /\ useRestrictedCuts = TRUE
  /\ pc = "types.idle"
  /\ nodeCounter = 0
  /\ pretableau = EmptyPretableau
  /\ prestateIndex = EmptyIndex
  /\ stateIndex = EmptyIndex
  /\ queues = NoQueues
  /\ expansion = NoExpansion
  /\ initialTableau = EmptyTableau
  /\ states = <<>>
  /\ edges = <<>>
  /\ eliminations = <<>>
  /\ cycle = NoCycle
  /\ results = <<>>
  /\ api = NoCall
  /\ calls = <<>>
  /\ progress = <<>>
  /\ stack = <<>>
  /\ cli = NoCli

\* formulaEqual(a, b) on two formulas the caller built.
CallFormulaEqual ==
  /\ pc = "types.idle"
  /\ \E a \in ConstructorCalls(MaxKeyDepth), b \in ConstructorCalls(MaxKeyDepth) :
       api' = [op |-> "formulaEqual", args |-> <<a, b>>,
               result |-> formulaEqual(Construct(a), Construct(b))]
  /\ pc' = "types.returned"
  /\ UNCHANGED <<cli, stack, progress, calls, theta, useRestrictedCuts, nodeCounter,
                 pretableau, prestateIndex, stateIndex, queues, expansion,
                 initialTableau, states, edges, eliminations, cycle, results>>

\* The agent arrays a caller can write, the empty one included.
MaxAgents == 3
AgentArrays == UNION {[1..n -> Agents] : n \in 0..MaxAgents}

\* What a call that throws leaves its caller with.
Thrown(message) == <<"Error", message>>

\* A call of D(coalition, sub).
CallD ==
  /\ pc = "types.idle"
  /\ \E coalition \in AgentArrays, sub \in ConstructorCalls(0) :
       api' = [op |-> "D", args |-> <<coalition, sub>>,
               result |-> IF normalizeCoalitionThrows(coalition)
                          THEN Thrown("Coalition must be non-empty")
                          ELSE D(coalition, Construct(sub))]
  /\ pc' = "types.returned"
  /\ UNCHANGED <<cli, stack, progress, calls, theta, useRestrictedCuts, nodeCounter,
                 pretableau, prestateIndex, stateIndex, queues, expansion,
                 initialTableau, states, edges, eliminations, cycle, results>>

\* A call of C(coalition, sub).
CallC ==
  /\ pc = "types.idle"
  /\ \E coalition \in AgentArrays, sub \in ConstructorCalls(0) :
       api' = [op |-> "C", args |-> <<coalition, sub>>,
               result |-> IF normalizeCoalitionThrows(coalition)
                          THEN Thrown("Coalition must be non-empty")
                          ELSE C(coalition, Construct(sub))]
  /\ pc' = "types.returned"
  /\ UNCHANGED <<cli, stack, progress, calls, theta, useRestrictedCuts, nodeCounter,
                 pretableau, prestateIndex, stateIndex, queues, expansion,
                 initialTableau, states, edges, eliminations, cycle, results>>

(***************************************************************************)
(* parser.ts.  The input is a sequence of characters, and a position       *)
(* counts from 1: it is one more than the parser's pos.                    *)
(***************************************************************************)
LowerCase == {"a", "b", "c", "p", "q"}
UpperCase == {"C", "D", "K"}
Digits == {"0", "1"}

\* /[a-z0-9_]/i
isAgentChar(ch) == ch \in LowerCase \cup UpperCase \cup Digits \cup {"_"}

\* /\s/
isWhitespace(ch) == ch \in {" "}

\* String.prototype.slice gives a string.
RECURSIVE Join(_)
Join(chars) == IF chars = <<>> THEN "" ELSE chars[1] \o Join(Tail(chars))

\* A method of Parser returns with pos moved, or throws a ParseError.
Parsed(pos, value) == [ok |-> TRUE, pos |-> pos, value |-> value]
ParseError(message, pos) == [ok |-> FALSE, pos |-> pos, value |-> message]

RECURSIVE skipWhitespace(_, _)
skipWhitespace(input, pos) ==
  IF pos <= Len(input) /\ isWhitespace(input[pos])
  THEN skipWhitespace(input, pos + 1)
  ELSE pos

expect(input, pos, ch) ==
  IF pos > Len(input) \/ input[pos] # ch
  THEN ParseError("Expected '" \o ch \o "' at position " \o ToString(pos - 1)
                    \o ", got '"
                    \o (IF pos > Len(input) THEN "EOF" ELSE input[pos]) \o "'",
                  pos)
  ELSE Parsed(pos + 1, ch)

\* The while loop of parseAgent.
RECURSIVE agentEnd(_, _)
agentEnd(input, pos) ==
  IF pos <= Len(input) /\ isAgentChar(input[pos])
  THEN agentEnd(input, pos + 1)
  ELSE pos

parseAgent(input, start) ==
  LET slice(pos) ==
        IF pos = start
        THEN ParseError("Expected agent name at position " \o ToString(pos - 1), pos)
        ELSE Parsed(pos, Join(SubSeq(input, start, pos - 1)))
  IN slice(agentEnd(input, start))

\* The while loop of parseCoalition and its expect("}").
RECURSIVE moreAgents(_, _, _)
moreAgents(input, pos, agents) ==
  LET next(a) ==
        IF a.ok
        THEN moreAgents(input, skipWhitespace(input, a.pos), Append(agents, a.value))
        ELSE a
      close(e) == IF e.ok THEN Parsed(e.pos, agents) ELSE e
  IN IF pos <= Len(input) /\ input[pos] = ","
     THEN next(parseAgent(input, skipWhitespace(input, pos + 1)))
     ELSE close(expect(input, pos, "}"))

parseCoalition(input, pos) ==
  LET first(a) ==
        IF a.ok
        THEN moreAgents(input, skipWhitespace(input, a.pos), <<a.value>>)
        ELSE a
      open(e) ==
        IF e.ok THEN first(parseAgent(input, skipWhitespace(input, e.pos))) ELSE e
  IN open(expect(input, pos, "{"))

\* The fold of K{a,b,...} phi into (Ka phi & (Kb phi & ...)).
RECURSIVE foldK(_, _)
foldK(coalition, sub) ==
  IF Len(coalition) = 1
  THEN D(<<coalition[1]>>, sub)
  ELSE And(D(<<coalition[1]>>, sub), foldK(Tail(coalition), sub))

RECURSIVE parsePrimary(_, _)
RECURSIVE parseExpr(_, _)
RECURSIVE parseExprLoop(_, _, _)

\* In each branch the operand is parsed by the named method and, unless
\* that threw, the formula is built from it.
parsePrimary(input, from) ==
  LET pos == skipWhitespace(input, from)
      ch == input[pos]
      brace == pos + 1 <= Len(input) /\ input[pos + 1] = "{"
      negation(sub) == IF sub.ok THEN Parsed(sub.pos, Not(sub.value)) ELSE sub
      closing(inner, e) == IF e.ok THEN Parsed(e.pos, inner.value) ELSE e
      parenthesized(inner) ==
        IF inner.ok
        THEN closing(inner, expect(input, skipWhitespace(input, inner.pos), ")"))
        ELSE inner
      distributed(coalition, sub) ==
        IF sub.ok THEN Parsed(sub.pos, D(coalition.value, sub.value)) ELSE sub
      common(coalition, sub) ==
        IF sub.ok THEN Parsed(sub.pos, C(coalition.value, sub.value)) ELSE sub
      everyone(coalition, sub) ==
        IF sub.ok THEN Parsed(sub.pos, foldK(coalition.value, sub.value)) ELSE sub
      individual(agent, sub) ==
        IF sub.ok THEN Parsed(sub.pos, D(<<agent.value>>, sub.value)) ELSE sub
      operand(at) == parsePrimary(input, skipWhitespace(input, at.pos))
      afterD(coalition) ==
        IF coalition.ok THEN distributed(coalition, operand(coalition)) ELSE coalition
      afterC(coalition) ==
        IF coalition.ok THEN common(coalition, operand(coalition)) ELSE coalition
      afterK(coalition) ==
        IF ~coalition.ok THEN coalition
        ELSE IF Len(coalition.value) = 0
        THEN ParseError("K{} requires at least one agent", coalition.pos)
        ELSE everyone(coalition, operand(coalition))
      afterKa(agent) ==
        IF agent.ok THEN individual(agent, operand(agent)) ELSE agent
      atom(name) == IF name.ok THEN Parsed(name.pos, Atom(name.value)) ELSE name
  IN IF pos > Len(input) THEN ParseError("Unexpected end of input", pos)
     ELSE IF ch = "~" \/ ch = "!"
     THEN negation(parsePrimary(input, skipWhitespace(input, pos + 1)))
     ELSE IF ch = "("
     THEN parenthesized(parseExpr(input, skipWhitespace(input, pos + 1)))
     ELSE IF ch = "D" /\ brace THEN afterD(parseCoalition(input, pos + 1))
     ELSE IF ch = "C" /\ brace THEN afterC(parseCoalition(input, pos + 1))
     ELSE IF ch = "K" /\ brace THEN afterK(parseCoalition(input, pos + 1))
     ELSE IF ch = "K" /\ pos + 1 <= Len(input) /\ isAgentChar(input[pos + 1])
     THEN afterKa(parseAgent(input, pos + 1))
     ELSE IF isAgentChar(ch) THEN atom(parseAgent(input, pos))
     ELSE ParseError("Unexpected character '" \o ch \o "' at position "
                       \o ToString(pos - 1), pos)

\* The while (true) loop of parseExpr.
parseExprLoop(input, from, left) ==
  LET pos == skipWhitespace(input, from)
      implies(right) ==
        IF right.ok
        THEN parseExprLoop(input, right.pos, Implies(left, right.value))
        ELSE right
      or(right) ==
        IF right.ok THEN parseExprLoop(input, right.pos, Or(left, right.value))
        ELSE right
      and(right) ==
        IF right.ok THEN parseExprLoop(input, right.pos, And(left, right.value))
        ELSE right
  IN IF pos > Len(input) THEN Parsed(pos, left)
     ELSE IF input[pos] = "-" /\ pos + 1 <= Len(input) /\ input[pos + 1] = ">"
     THEN implies(parsePrimary(input, skipWhitespace(input, pos + 2)))
     ELSE IF input[pos] = "|"
     THEN or(parsePrimary(input, skipWhitespace(input, pos + 1)))
     ELSE IF input[pos] = "&"
     THEN and(parsePrimary(input, skipWhitespace(input, pos + 1)))
     ELSE Parsed(pos, left)

parseExpr(input, pos) ==
  LET loop(left) ==
        IF left.ok THEN parseExprLoop(input, left.pos, left.value) ELSE left
  IN loop(parsePrimary(input, pos))

parse(input) ==
  LET end(result, pos) ==
        IF pos <= Len(input)
        THEN ParseError("Unexpected character '" \o input[pos]
                          \o "' at position " \o ToString(pos - 1), pos)
        ELSE result
      rest(result) ==
        IF result.ok THEN end(result, skipWhitespace(input, result.pos)) ELSE result
  IN rest(parseExpr(input, skipWhitespace(input, 1)))

\* String.prototype.trim
RECURSIVE trim(_)
trim(input) ==
  IF input # <<>> /\ isWhitespace(input[1]) THEN trim(Tail(input))
  ELSE IF input # <<>> /\ isWhitespace(input[Len(input)])
  THEN trim(SubSeq(input, 1, Len(input) - 1))
  ELSE input

\* parseFormula: the formula, or the ParseError thrown.
parseFormula(input) ==
  LET outcome(r) == IF r.ok THEN r.value ELSE Thrown(r.value)
  IN outcome(parse(trim(input)))

\* The strings given to parseFormula: those of the header of parser.ts and
\* of the tests, and some that do not parse.
ParserInputs ==
  { <<"p">>,
    <<"~", "p">>,
    <<"!", "p">>,
    <<"(", "p", " ", "&", " ", "q", ")">>,
    <<"p", " ", "|", " ", "q">>,
    <<"p", " ", "-", ">", " ", "q">>,
    <<"p", "&", "q", "&", "p">>,
    <<"K", "a", " ", "p">>,
    <<"K", "a", " ", "K", "b", " ", "p">>,
    <<"K", "a", "K", "b", " ", "p">>,
    <<"~", "K", "a", "K", "b", " ", "p">>,
    <<"D", "{", "a", ",", "b", "}", " ", "p">>,
    <<"D", "{", "b", ",", " ", "a", "}", "p">>,
    <<"C", "{", "a", ",", "b", "}", " ", "(", "p", " ", "&", " ", "q", ")">>,
    <<"K", "{", "a", ",", "b", "}", " ", "p">>,
    <<" ", "~", "C", "{", "a", "}", "p", " ">>,
    <<>>,
    <<"(", "p">>,
    <<"p", " ", "q">>,
    <<"D", "{", "}", "p">>,
    <<"D", "{", "a", "p">>,
    <<"p", " ", "&">>,
    <<"&">> }

\* A call of parseFormula(input).
CallParseFormula ==
  /\ pc = "types.idle"
  /\ \E input \in ParserInputs :
       api' = [op |-> "parseFormula", args |-> <<input>>,
               result |-> parseFormula(input)]
  /\ pc' = "types.returned"
  /\ UNCHANGED <<cli, stack, progress, calls, theta, useRestrictedCuts, nodeCounter,
                 pretableau, prestateIndex, stateIndex, queues, expansion,
                 initialTableau, states, edges, eliminations, cycle, results>>

NextTypes ==
  \/ CallFormulaEqual
  \/ CallD
  \/ CallC
  \/ CallParseFormula

SpecTypes == InitTypes /\ [][NextTypes]_vars

(***************************************************************************)
(* index.ts with --interactive: runInteractive and solveAndPrint.  The     *)
(* flags pick the output (text summary, --verbose, --html, --dot) and the  *)
(* cut mode; stdin holds the lines the user will enter.                    *)
(***************************************************************************)
MaxLines == 2

\* The lines a user enters.
CliLines ==
  { <<>>,
    <<" ">>,
    <<"h", "e", "l", "p">>,
    <<"q", "u", "i", "t">>,
    <<" ", "e", "x", "i", "t">>,
    <<"p">>,
    <<"~", "C", "{", "a", "}", "p">>,
    <<"(", "p">> }

CliOutputs == {"text", "verbose", "html", "dot"}

InitCli ==
  /\ \E stdin \in UNION {[1..n -> CliLines] : n \in 0..MaxLines},
        output \in CliOutputs, noRestrictedCuts \in BOOLEAN :
       cli = [at |-> "prompt", output |-> output,
              useRestrictedCuts |-> ~noRestrictedCuts,
              stdin |-> stdin, line |-> <<>>,
              out |-> <<"banner">>, exitCode |-> 0]
  /\ theta = NoTheta
  /\ calls = <<>>
  /\ useRestrictedCuts = TRUE
  /\ pc = "cli"
  /\ nodeCounter = 0
  /\ pretableau = EmptyPretableau
  /\ prestateIndex = EmptyIndex
  /\ stateIndex = EmptyIndex
  /\ queues = NoQueues
  /\ expansion = NoExpansion
  /\ initialTableau = EmptyTableau
  /\ states = <<>>
  /\ edges = <<>>
  /\ eliminations = <<>>
  /\ cycle = NoCycle
  /\ results = <<>>
  /\ api = NoCall
  /\ progress = <<>>
  /\ stack = <<>>

\* The callback of rl.question for the next line of stdin: up to the next
\* prompt, to rl.close(), to process.exit(1) after a parse error, or to the
\* call of runTableau in solveAndPrint.
ReadLine ==
  /\ cli.at = "prompt"
  /\ cli.stdin # <<>>
  /\ LET line == Head(cli.stdin)
         trimmed == trim(line)
         read == [cli EXCEPT !.stdin = Tail(@), !.line = line]
         solve(formula) ==
           IF formula[1] = "Error"
           THEN /\ cli' = [read EXCEPT !.at = "exited", !.exitCode = 1,
                                       !.out = Append(@, "Parse error: " \o formula[2])]
                /\ UNCHANGED <<theta, calls, results, pc>>
           ELSE /\ cli' = [read EXCEPT !.at = "solving"]
                /\ theta' = formula
                /\ calls' = <<[useRestrictedCuts |-> cli.useRestrictedCuts,
                               onProgress |-> "none"]>>
                /\ results' = <<>>
                /\ pc' = "idle"
     IN IF trimmed = <<>>
        THEN /\ cli' = read
             /\ UNCHANGED <<theta, calls, results, pc>>
        ELSE IF Join(trimmed) = "quit" \/ Join(trimmed) = "exit"
        THEN /\ cli' = [read EXCEPT !.at = "closed"]
             /\ UNCHANGED <<theta, calls, results, pc>>
        ELSE IF Join(trimmed) = "help"
        THEN /\ cli' = [read EXCEPT !.out = Append(@, "Formula Syntax")]
             /\ UNCHANGED <<theta, calls, results, pc>>
        ELSE solve(parseFormula(trimmed))
  /\ UNCHANGED <<stack, progress, api, useRestrictedCuts, nodeCounter, pretableau,
                 prestateIndex, stateIndex, queues, expansion, initialTableau,
                 states, edges, eliminations, cycle>>

\* runTableau has returned to solveAndPrint: it prints, and with --html or
\* --dot returns to the callback, which prompts again; otherwise it calls
\* process.exit.
PrintResult ==
  /\ cli.at = "solving"
  /\ pc = "idle"
  /\ Len(results) = Len(calls)
  /\ cli' = IF cli.output \in {"html", "dot"}
            THEN [cli EXCEPT !.at = "prompt", !.out = @ \o <<cli.output, "">>]
            ELSE [cli EXCEPT !.at = "exited",
                             !.out = Append(@, cli.output),
                             !.exitCode = IF results[1].satisfiable THEN 0 ELSE 1]
  /\ pc' = "cli"
  /\ UNCHANGED <<stack, progress, calls, api, theta, useRestrictedCuts, nodeCounter,
                 pretableau, prestateIndex, stateIndex, queues, expansion,
                 initialTableau, states, edges, eliminations, cycle, results>>

\* stdin ends while the prompt waits: readline closes, and the process ends.
InputCloses ==
  /\ cli.at = "prompt"
  /\ cli.stdin = <<>>
  /\ cli' = [cli EXCEPT !.at = "eof"]
  /\ UNCHANGED <<stack, progress, calls, api, theta, useRestrictedCuts, pc,
                 nodeCounter, pretableau, prestateIndex, stateIndex, queues,
                 expansion, initialTableau, states, edges, eliminations, cycle,
                 results>>

NextCli ==
  \/ ReadLine
  \/ Next
  \/ PrintResult
  \/ InputCloses

SpecCli == InitCli /\ [][NextCli]_vars


(***************************************************************************)
(* Properties.                                                             *)
(***************************************************************************)

\* C1: runTableau returns satisfiable = true exactly when some state of the
\* final tableau it returns has the input formula in its formula set.
C1_VerdictIffThetaSurvives ==
  \A n \in DOMAIN results :
    results[n].satisfiable <=>
      \E i \in DOMAIN results[n].finalTableau.states :
        \E k \in DOMAIN results[n].finalTableau.states[i].formulas :
          results[n].finalTableau.states[i].formulas[k][2] = results[n].inputFormula

\* A call returned unsatisfiable although states survive Phase 3.
C1_Witness ==
  \E n \in DOMAIN results :
    /\ ~results[n].satisfiable
    /\ results[n].finalTableau.states # <<>>

\* C2: the call with restricted cuts and the call with unrestricted cuts on
\* the same input formula return the same verdict.
C2_SameVerdictBothCutModes ==
  \A m, n \in DOMAIN results :
    (/\ results[m].restricted
     /\ ~results[n].restricted
     /\ results[m].inputFormula = results[n].inputFormula)
      => results[m].satisfiable = results[n].satisfiable

\* Both calls have returned, and the two modes built different pretableaux.
C2_Witness ==
  /\ Len(results) = 2
  /\ results[1].restricted /\ ~results[2].restricted
  /\ Len(results[1].pretableau.states) # Len(results[2].pretableau.states)

\* A set with no formula together with its negation.
NotPatentlyInconsistent(fs) ==
  ~\E i, j \in DOMAIN fs : fs[j][2] = Not(fs[i][2])

\* Every alpha-formula of the set has all its components in the set, and
\* every beta-formula at least one.
AlphaBetaSaturated(fs) ==
  \A i \in DOMAIN fs :
    LET cls == classifyFormula(fs[i][2])
        in(c) == \E j \in DOMAIN fs : fs[j][2] = cls.components[c]
    IN /\ cls.type = "alpha" => \A c \in DOMAIN cls.components : in(c)
       /\ cls.type = "beta" => \E c \in DOMAIN cls.components : in(c)

\* C3: every state of the pretableau, of the initial tableau and of the
\* tableau under elimination is not patently inconsistent and is fully
\* expanded.
C3_StatesFullyExpanded ==
  /\ \A i \in DOMAIN pretableau.states :
       /\ NotPatentlyInconsistent(pretableau.states[i].formulas)
       /\ AlphaBetaSaturated(pretableau.states[i].formulas)
  /\ \A i \in DOMAIN initialTableau.states :
       /\ NotPatentlyInconsistent(initialTableau.states[i].formulas)
       /\ AlphaBetaSaturated(initialTableau.states[i].formulas)
  /\ \A i \in DOMAIN states :
       /\ NotPatentlyInconsistent(states[i].formulas)
       /\ AlphaBetaSaturated(states[i].formulas)

\* Phase 1 is over, with at least five states, at a prestate whose
\* expansion was empty.
C3_Witness ==
  /\ pc = "PR"
  /\ Len(pretableau.states) >= 5
  /\ \E i \in DOMAIN pretableau.prestates :
       \A e \in DOMAIN pretableau.dashedEdges :
         pretableau.dashedEdges[e].from # pretableau.prestates[i].id

\* C4: in each mode, every set that the expansion returns is not patently
\* inconsistent and is fully expanded, and a patently inconsistent input
\* gives the empty family.
C4_ExpansionOutput ==
  pc = "expand.returned" =>
    /\ \A k \in DOMAIN expansion.family :
         /\ NotPatentlyInconsistent(expansion.family[k])
         /\ isFullyExpanded(expansion.family[k])
    /\ ~NotPatentlyInconsistent(expansion.gamma) => expansion.family = <<>>

\* cutSaturatedExpansion with unrestricted cuts has returned three or more sets.
C4_Witness ==
  /\ pc = "expand.returned"
  /\ expansion.enableCuts /\ ~expansion.useRestrictedCuts
  /\ Len(expansion.family) >= 3

\* C5: in a final tableau, every diamond of every state labels an edge from
\* that state to a state of the final tableau.
C5_NoE1DefectiveState ==
  \A n \in DOMAIN results :
    \A i \in DOMAIN results[n].finalTableau.states :
      \A k \in DOMAIN results[n].finalTableau.states[i].formulas :
        isDiamond(results[n].finalTableau.states[i].formulas[k][2]) =>
          \E e \in DOMAIN results[n].finalTableau.edges :
            /\ results[n].finalTableau.edges[e].from =
                 results[n].finalTableau.states[i].id
            /\ results[n].finalTableau.edges[e].label =
                 results[n].finalTableau.states[i].formulas[k][2]
            /\ \E j \in DOMAIN results[n].finalTableau.states :
                 results[n].finalTableau.states[j].id =
                   results[n].finalTableau.edges[e].to

\* Rule (E1) has eliminated a state, and a state with a diamond survives.
C5_Witness ==
  \E n \in DOMAIN results :
    /\ \E k \in DOMAIN results[n].eliminations :
         results[n].eliminations[k].rule = "E1"
    /\ \E i \in DOMAIN results[n].finalTableau.states :
         \E k \in DOMAIN results[n].finalTableau.states[i].formulas :
           isDiamond(results[n].finalTableau.states[i].formulas[k][2])

\* The ids of the states among alive from which the eventuality ev =
\* ~C_A phi is realized along edges of the tableau t: those with ~phi, and
\* those with ev and an edge labelled ~D_B psi, B meeting A, to such a state.
RECURSIVE RealizedFrom(_, _, _, _)
RealizedFrom(t, alive, ev, M) ==
  LET more ==
        {id \in alive \ M :
           /\ \E i \in DOMAIN t.states :
                /\ t.states[i].id = id
                /\ \E k \in DOMAIN t.states[i].formulas :
                     t.states[i].formulas[k][2] = ev
           /\ \E e \in DOMAIN t.edges :
                /\ t.edges[e].from = id
                /\ t.edges[e].to \in M
                /\ t.edges[e].label[1] = "not"
                /\ t.edges[e].label[2][1] = "D"
                /\ Range(t.edges[e].label[2][2]) \cap Range(ev[2][2]) # {}}
  IN IF more = {} THEN M ELSE RealizedFrom(t, alive, ev, M \cup more)

Realized(t, alive, ev) ==
  RealizedFrom(t, alive, ev,
    {id \in alive :
       \E i \in DOMAIN t.states :
         /\ t.states[i].id = id
         /\ \E k \in DOMAIN t.states[i].formulas :
              t.states[i].formulas[k][2] = Not(ev[2][3])})

\* C6: in a final tableau every eventuality of every state is realized along
\* a path of edges of the final tableau; and Phase 3 leaves its loop over the
\* eventualities only at the end of a pass that removed no state.
C6_EventualitiesRealized ==
  /\ \A n \in DOMAIN results :
       LET t == results[n].finalTableau
       IN \A i \in DOMAIN t.states :
            \A k \in DOMAIN t.states[i].formulas :
              isEventuality(t.states[i].formulas[k][2]) =>
                t.states[i].id \in
                  Realized(t, {t.states[j].id : j \in DOMAIN t.states},
                           t.states[i].formulas[k][2])
  /\ (pc = "verdict" /\ cycle.allEventualities # <<>>) =>
       /\ cycle.i = Len(cycle.allEventualities) + 1
       /\ ~cycle.removedInCycle
       /\ Len(states) = cycle.statesAtStart

\* Rule (E2) has eliminated a state, and a state with an eventuality but
\* without the negated argument survives: its path has an edge.
C6_Witness ==
  \E n \in DOMAIN results :
    /\ \E k \in DOMAIN results[n].eliminations :
         results[n].eliminations[k].rule = "E2"
    /\ \E i \in DOMAIN results[n].finalTableau.states :
         \E k \in DOMAIN results[n].finalTableau.states[i].formulas :
           LET f == results[n].finalTableau.states[i].formulas[k][2]
           IN /\ isEventuality(f)
              /\ ~FSHas(results[n].finalTableau.states[i].formulas, Not(f[2][3]))

\* C7: at every point of a run, no two states of the pretableau have the
\* same set key, and no two prestates have the same set key.
C7_UniqueSetKeys ==
  /\ \A i, j \in DOMAIN pretableau.states :
       FSKey(pretableau.states[i].formulas) = FSKey(pretableau.states[j].formulas)
         => i = j
  /\ \A i, j \in DOMAIN pretableau.prestates :
       FSKey(pretableau.prestates[i].formulas) =
         FSKey(pretableau.prestates[j].formulas)
         => i = j

\* Rule (SR) has reused a state and rule (DR) has reused a prestate: two
\* prestates have a dashed edge to one state, and two solid edges lead to one
\* prestate.
C7_Witness ==
  /\ \E d, e \in DOMAIN pretableau.dashedEdges :
       /\ pretableau.dashedEdges[d].to = pretableau.dashedEdges[e].to
       /\ pretableau.dashedEdges[d].from # pretableau.dashedEdges[e].from
  /\ \E d, e \in DOMAIN pretableau.solidEdges :
       /\ d # e
       /\ pretableau.solidEdges[d].to = pretableau.solidEdges[e].to

PretableauEdgesOK(p) ==
  \A e \in DOMAIN p.solidEdges :
    /\ \E i \in DOMAIN p.states : p.states[i].id = p.solidEdges[e].from
    /\ \E i \in DOMAIN p.prestates : p.prestates[i].id = p.solidEdges[e].to
    /\ p.solidEdges[e].label[1] = "not" /\ p.solidEdges[e].label[2][1] = "D"

TableauEdgesOK(t) ==
  \A e \in DOMAIN t.edges :
    /\ \E i \in DOMAIN t.states : t.states[i].id = t.edges[e].from
    /\ \E i \in DOMAIN t.states : t.states[i].id = t.edges[e].to
    /\ t.edges[e].label[1] = "not" /\ t.edges[e].label[2][1] = "D"

\* C8: every solid edge of the pretableau goes from one of its states to one
\* of its prestates, every edge of the initial and of the final tableau goes
\* between states of that tableau, and every label is a diamond ~D_A phi.
C8_EdgeEndpointsAndLabels ==
  /\ PretableauEdgesOK(pretableau)
  /\ TableauEdgesOK(initialTableau)
  /\ \A n \in DOMAIN results :
       /\ PretableauEdgesOK(results[n].pretableau)
       /\ TableauEdgesOK(results[n].initialTableau)
       /\ TableauEdgesOK(results[n].finalTableau)

\* Phase 3 has removed states and their edges, and edges are left.
C8_Witness ==
  \E n \in DOMAIN results :
    /\ results[n].eliminations # <<>>
    /\ results[n].finalTableau.edges # <<>>
    /\ Len(results[n].finalTableau.edges) < Len(results[n].initialTableau.edges)

PRCorrect(p, t) ==
  /\ t.states = p.states
  /\ {<<t.edges[e].from, t.edges[e].label, t.edges[e].to>> : e \in DOMAIN t.edges}
       = {<<p.solidEdges[x[1]].from, p.solidEdges[x[1]].label, p.dashedEdges[x[2]].to>> :
            x \in {y \in (DOMAIN p.solidEdges) \X (DOMAIN p.dashedEdges) :
                     p.solidEdges[y[1]].to = p.dashedEdges[y[2]].from}}

\* C9: the initial tableau has the states of the pretableau, and its edges
\* are exactly the triples (from, label, to) with a solid edge from -> Gamma
\* of that label and a dashed edge Gamma -> to, for a prestate Gamma.
C9_InitialTableauFromPretableau ==
  /\ pc \in {"E1only", "cycle", "E2", "E1", "verdict"} =>
       PRCorrect(pretableau, initialTableau)
  /\ \A n \in DOMAIN results :
       PRCorrect(results[n].pretableau, results[n].initialTableau)

\* Rule (PR) has met a prestate with two or more states and, at the end of a
\* solid edge, a prestate with none.
C9_Witness ==
  \E n \in DOMAIN results :
    LET p == results[n].pretableau
    IN /\ results[n].initialTableau.edges # <<>>
       /\ \E s \in DOMAIN p.solidEdges :
            \A d \in DOMAIN p.dashedEdges :
              p.dashedEdges[d].from # p.solidEdges[s].to
       /\ \E s \in DOMAIN p.solidEdges :
            \E c, d \in DOMAIN p.dashedEdges :
              /\ p.dashedEdges[c].from = p.solidEdges[s].to
              /\ p.dashedEdges[d].from = p.solidEdges[s].to
              /\ p.dashedEdges[c].to # p.dashedEdges[d].to

\* The trace of the removals from the initial tableau t that left the
\* states remaining: the ids recorded are those removed, each once; every
\* record has the rule and the formula set of its state; and every record
\* is justified by the removals recorded before it: for (E1) its diamond
\* has no edge to a state not removed before, for (E2) its eventuality is
\* not realized among the states not removed before.
TraceOK(t, remaining, trace) ==
  LET ids == {t.states[i].id : i \in DOMAIN t.states}
      before(k) == {trace[j].stateId : j \in 1..(k - 1)}
  IN /\ {trace[k].stateId : k \in DOMAIN trace}
          = ids \ {remaining[i].id : i \in DOMAIN remaining}
     /\ \A j, k \in DOMAIN trace : trace[j].stateId = trace[k].stateId => j = k
     /\ \A k \in DOMAIN trace :
          /\ trace[k].rule \in {"E1", "E2"}
          /\ \E i \in DOMAIN t.states :
               /\ t.states[i].id = trace[k].stateId
               /\ t.states[i].formulas = trace[k].stateFormulas
          /\ \E m \in DOMAIN trace[k].stateFormulas :
               trace[k].stateFormulas[m][2] = trace[k].formula
          /\ trace[k].rule = "E1" =>
               /\ isDiamond(trace[k].formula)
               /\ ~\E e \in DOMAIN t.edges :
                     /\ t.edges[e].from = trace[k].stateId
                     /\ t.edges[e].label = trace[k].formula
                     /\ t.edges[e].to \in ids \ before(k)
          /\ trace[k].rule = "E2" =>
               /\ isEventuality(trace[k].formula)
               /\ trace[k].stateId \notin Realized(t, ids \ before(k), trace[k].formula)

C11_Example3 ==
  \A n \in DOMAIN results :
    (results[n].inputFormula = Example3 /\ results[n].restricted) =>
      /\ ~results[n].satisfiable
      /\ Len(results[n].pretableau.states) >= 1
      /\ Len(results[n].pretableau.prestates) >= 1
      /\ Len(results[n].initialTableau.states) >= 1
      /\ Len(results[n].finalTableau.states) = 0

\* The default call on Example 3 has returned, after Phase 3 removed states.
C11_Witness ==
  \E n \in DOMAIN results :
    /\ results[n].inputFormula = Example3
    /\ results[n].restricted
    /\ results[n].eliminations # <<>>

\* C12: runTableau on Example 4, theta = ~D{a,b} p /\ ~D{a,c} ~D{a} p, with
\* restricted cuts returns unsatisfiable.
C12_Example4 ==
  \A n \in DOMAIN results :
    (results[n].inputFormula = Example4 /\ results[n].restricted) =>
      ~results[n].satisfiable

\* The call with restricted cuts on Example 4 has returned, and states
\* survive Phase 3 although none of them contains theta.
C12_Witness ==
  \E n \in DOMAIN results :
    /\ results[n].inputFormula = Example4
    /\ results[n].restricted
    /\ results[n].finalTableau.states # <<>>

\* C13: for every coalition A, every agent a in A and every formula phi,
\* runTableau(C_A phi /\ ~D_{a} phi) returns unsatisfiable.
C13_CommonImpliesMember ==
  \A n \in DOMAIN results :
    (results[n].inputFormula \in CommonImpliesMember /\ results[n].restricted)
      => ~results[n].satisfiable

\* The call has returned for a two-agent coalition and a phi that is not an
\* atom, after rule (DR) built the prestate of ~D_{a} phi and Phase 3
\* removed a state.
C13_Witness ==
  \E n \in DOMAIN results :
    /\ results[n].inputFormula \in CommonImpliesMember
    /\ results[n].restricted
    /\ Len(results[n].inputFormula[2][2]) = 2
    /\ results[n].inputFormula[2][3][1] # "atom"
    /\ results[n].pretableau.solidEdges # <<>>
    /\ results[n].eliminations # <<>>

\* C14: veridicality.  For every coalition A and every formula phi,
\* runTableau(D_A phi /\ ~phi) returns unsatisfiable under both cut modes.
C14_Veridicality ==
  \A n \in DOMAIN results :
    results[n].inputFormula \in Veridicality => ~results[n].satisfiable

\* Both calls have returned for a two-agent coalition and a phi that is not
\* an atom.
C14_Witness ==
  \E m, n \in DOMAIN results :
    /\ results[m].inputFormula \in Veridicality
    /\ Len(results[m].inputFormula[2][2]) = 2
    /\ results[m].inputFormula[2][3][1] # "atom"
    /\ results[m].restricted
    /\ ~results[n].restricted

\* C15: for every formula phi, runTableau(phi /\ ~phi) returns unsatisfiable
\* and the final tableau has no state.
C15_Contradiction ==
  \A n \in DOMAIN results :
    (results[n].inputFormula \in Contradictions /\ results[n].restricted) =>
      /\ ~results[n].satisfiable
      /\ Len(results[n].finalTableau.states) = 0

\* The call has returned for a phi that is a common-knowledge formula: (SR)
\* expanded the prestate {phi /\ ~phi} and no state was built.
C15_Witness ==
  \E n \in DOMAIN results :
    /\ results[n].inputFormula \in Contradictions
    /\ results[n].restricted
    /\ results[n].inputFormula[2][1] = "C"
    /\ Len(results[n].pretableau.prestates) = 1
    /\ results[n].pretableau.states = <<>>

\* C16: for distinct agents a # b and an atom p, runTableau(D_{a} p /\
\* ~D_{b} p) returns satisfiable, and the final tableau keeps a state that
\* contains the input formula.
C16_DifferentKnowledge ==
  \A n \in DOMAIN results :
    (results[n].inputFormula \in DifferentKnowledge /\ results[n].restricted)
      => /\ results[n].satisfiable
         /\ \E i \in DOMAIN results[n].finalTableau.states :
              FSHas(results[n].finalTableau.states[i].formulas,
                    results[n].inputFormula)

\* The call has returned after rule (DR) built the prestate of ~D_{b} p.
C16_Witness ==
  \E n \in DOMAIN results :
    /\ results[n].inputFormula \in DifferentKnowledge
    /\ results[n].restricted
    /\ \E k \in DOMAIN results[n].pretableau.solidEdges :
         results[n].pretableau.solidEdges[k].label = results[n].inputFormula[3]

(***************************************************************************)
(* Termination.                                                            *)
(***************************************************************************)
\* C17: Phase 1 terminates for every input formula theta: the loop that
\* alternates (SR) and (DR) reaches a point where the queue of prestates
\* awaiting (SR) and the queue of (state, diamond) pairs awaiting (DR) are
\* both empty, and the construction phase returns.
C17_Phase1Terminates ==
  (pc = "while") ~>
     (/\ pc = "PR"
      /\ queues.prestatesToExpand = <<>>
      /\ queues.statesToExpand = <<>>)

\* Phase 1 has returned after a round of (DR) that only met prestates that
\* exist already: reuse by key is what ended the loop.
C17_Witness ==
  /\ pc = "PR"
  /\ queues.prestatesToExpand = <<>>
  /\ queues.statesToExpand = <<>>
  /\ Len(pretableau.solidEdges) > Len(pretableau.prestates)
  /\ nodeCounter < MaxNodes

\* No rule of the expansion changes the set phi.
NoRuleApplies(phi, e) ==
  /\ tryAlphaRule(phi, e.gamma) = <<>>
  /\ tryBetaRule(phi, e.gamma) = <<>>
  /\ tryRule3(phi, e.gamma, e.rule3Applied).extras = <<>>
  /\ e.enableCuts => tryCutRule(phi, e.useRestrictedCuts) = <<>>

\* The call returned after a full pass over the family that changed nothing.
ReturnedAfterQuietPass ==
  /\ pc = "expand.returned"
  /\ \/ isPatentlyInconsistent(expansion.gamma) /\ expansion.family = <<>>
     \/ /\ ~expansion.changed
        /\ expansion.i = Len(expansion.family) + 1
        /\ \A n \in DOMAIN expansion.family :
             NoRuleApplies(expansion.family[n], expansion)

\* C18: the expansion of every finite formula set Gamma terminates in every
\* mode (no cuts, restricted cuts, unrestricted cuts): the saturation loop
\* reaches a full pass over the family in which no alpha-rule, beta-rule,
\* rule 3 or cut rule changes the family, and returns.  (A patently
\* inconsistent Gamma returns the empty family before the loop.)
C18_ExpansionTerminates == (pc = "expand") ~> ReturnedAfterQuietPass

\* An expansion with cuts returned after rule 3 had been applied, with more
\* than one set in the family.
C18_Witness ==
  /\ ReturnedAfterQuietPass
  /\ expansion.enableCuts
  /\ expansion.rule3Applied # {}
  /\ Len(expansion.family) > 1

(***************************************************************************)
(* Classification.                                                         *)
(***************************************************************************)
\* The formulas of the sets the expansion is working on.
FormulasInFamily ==
  UNION {{expansion.family[n][k][2] : k \in DOMAIN expansion.family[n]} :
           n \in DOMAIN expansion.family}

\* The agents of the coalition A in canonical order.
MembersInOrder(A) == SelectSeq(AgentOrder, LAMBDA a : \E i \in DOMAIN A : A[i] = a)

\* C19: classifyFormula assigns every formula exactly one class, with the
\* components of the table, in order: p, ~p and ~D_A phi are elementary;
\* ~~phi is alpha with [phi]; phi /\ psi is alpha with [phi, psi]; D_A phi is
\* alpha with [D_A phi, phi]; C_A phi is alpha with [phi, D_a C_A phi for
\* each a in A in canonical order]; ~(phi /\ psi) is beta with [~phi, ~psi];
\* ~C_A phi is beta with [~phi, ~D_a C_A phi for each a in A].
C19_ClassificationTable ==
  \A f \in FormulasInFamily :
    LET cls == classifyFormula(f)
        is(type, components) == cls.type = type /\ cls.components = components
    IN /\ cls.type \in {"elementary", "alpha", "beta"}
       /\ f[1] = "atom" => cls.type = "elementary"
       /\ (f[1] = "not" /\ f[2][1] = "atom") => cls.type = "elementary"
       /\ (f[1] = "not" /\ f[2][1] = "D") => cls.type = "elementary"
       /\ (f[1] = "not" /\ f[2][1] = "not") => is("alpha", <<f[2][2]>>)
       /\ f[1] = "and" => is("alpha", <<f[2], f[3]>>)
       /\ f[1] = "D" => is("alpha", <<f, f[3]>>)
       /\ f[1] = "C" =>
            is("alpha",
               <<f[3]>> \o [i \in DOMAIN MembersInOrder(f[2]) |->
                              <<"D", <<MembersInOrder(f[2])[i]>>, f>>])
       /\ (f[1] = "not" /\ f[2][1] = "and") =>
            is("beta", <<<<"not", f[2][2]>>, <<"not", f[2][3]>>>>)
       /\ (f[1] = "not" /\ f[2][1] = "C") =>
            is("beta",
               <<<<"not", f[2][3]>>>> \o
                 [i \in DOMAIN MembersInOrder(f[2][2]) |->
                    <<"not", <<"D", <<MembersInOrder(f[2][2])[i]>>, f[2]>>>>])

\* The expansion has applied the beta-rule to ~C{a,b} p and the alpha-rule
\* to a formula C{a,b} phi: a set holds ~C{a,b} p with its component
\* ~D{b} C{a,b} p, and a set holds C{a,b} phi with D{b} C{a,b} phi.
C19_Witness ==
  /\ pc = "expand"
  /\ \E n \in DOMAIN expansion.family :
       /\ FSHas(expansion.family[n], Not(C(<<"a", "b">>, Atom("p"))))
       /\ FSHas(expansion.family[n],
                Not(D(<<"b">>, C(<<"a", "b">>, Atom("p")))))

(***************************************************************************)
(* Restricted against unrestricted cuts.                                   *)
(***************************************************************************)
\* C20: for every input formula theta, the pretableau built with restricted
\* cuts has at most as many states as the pretableau built with
\* unrestricted cuts.
C20_RestrictedNoLarger ==
  \A m, n \in DOMAIN results :
    (/\ results[m].restricted
     /\ ~results[n].restricted
     /\ results[m].inputFormula = results[n].inputFormula)
      => Len(results[m].pretableau.states) <= Len(results[n].pretableau.states)

(***************************************************************************)
(* Keys and constructors.                                                  *)
(***************************************************************************)
\* The tree of a constructor call with every coalition as the set of its
\* agents: what sorting and removing duplicates leaves of it.
RECURSIVE TreeModuloCoalitions(_)
TreeModuloCoalitions(call) ==
  CASE call[1] = "atom" -> call
    [] call[1] = "not" -> <<"not", TreeModuloCoalitions(call[2])>>
    [] call[1] = "and" ->
         <<"and", TreeModuloCoalitions(call[2]), TreeModuloCoalitions(call[3])>>
    [] OTHER -> <<call[1], Range(call[2]), TreeModuloCoalitions(call[3])>>

\* C21: formulaKey agrees with structural equality modulo coalition
\* normalization: for formulas phi, psi built with the constructors,
\* formulaKey(phi) = formulaKey(psi) if and only if phi and psi are the same
\* tree once their coalitions are sorted and deduplicated.
C21_KeyIffSameTree ==
  api.op = "formulaEqual" =>
    (api.result <=>
       TreeModuloCoalitions(api.args[1]) = TreeModuloCoalitions(api.args[2]))

\* D([b,a], phi) was compared with D([a,b], phi) and found equal.
C21_Witness ==
  /\ api.op = "formulaEqual"
  /\ api.args[1][1] = "D" /\ api.args[1][2] = <<"b", "a">>
  /\ api.args[2][1] = "D" /\ api.args[2][2] = <<"a", "b">>
  /\ api.args[1][3] = api.args[2][3]
  /\ api.result

NodeIdsOf(r) ==
  [i \in DOMAIN r.pretableau.prestates |-> r.pretableau.prestates[i].id]
    \o [i \in DOMAIN r.pretableau.states |-> r.pretableau.states[i].id]

\* C23: the NodeIds a runTableau call assigns do not depend on any other
\* call: a call whose observer makes a nested call assigns the NodeIds that
\* the same call assigns without the nested call, and no two of its nodes
\* share a NodeId.
C23_IdsIndependentOfNestedCall ==
  (Len(results) = 2 /\ calls[1].onProgress = "nested") =>
    /\ NodeIdsOf(results[1]) = NodeIdsOf(results[2])
    /\ \A i, j \in DOMAIN NodeIdsOf(results[1]) :
         i # j => NodeIdsOf(results[1])[i] # NodeIdsOf(results[1])[j]

\* The four stage tags of the interface description.
StageTags == <<"construction", "prestate-elim", "state-elim", "verdict">>

\* C24 as stated: every value passed to an observer is one of the four stage
\* tags, and a call that has returned has reported them once each in
\* pipeline order.
C24_StageTagsInOrder ==
  /\ \A i \in DOMAIN progress : \E k \in DOMAIN StageTags : progress[i] = StageTags[k]
  /\ (pc = "idle" /\ Len(results) > 0 /\ calls[Len(results)].onProgress # "none")
       => progress = StageTags

\* C24, amended: the values passed to an observer are the four stage strings
\* of runTableau, in pipeline order and never twice: what an observer has
\* received is at all times a prefix of Stages, and all of Stages once the
\* call has returned.
C24_StageStringsInOrder ==
  /\ Len(progress) <= Len(Stages)
  /\ \A i \in DOMAIN progress : progress[i] = Stages[i]
  /\ (pc = "idle" /\ Len(results) > 0 /\ calls[Len(results)].onProgress # "none")
       => progress = Stages

\* A call with a logging observer has returned.
C24_Witness ==
  /\ pc = "idle"
  /\ Len(results) = 1
  /\ calls[1].onProgress = "log"
  /\ Len(progress) = 4

\* C25: runTableau never raises on a formula of Thetas, in either cut mode:
\* neither the check at the entry of applyDR nor the one at the entry of
\* applyE2 fails, and every call returns a TableauResult.
C25_NeverRaises ==
  /\ pc # "thrown"
  /\ (pc = "DR" /\ queues.i <= Len(queues.statesToExpand))
       => ~applyDRThrows(queues.statesToExpand[queues.i].formula)
  /\ pc = "E2" => ~applyE2Throws(cycle.allEventualities[cycle.i])

\* A call that applied (DR) and (E2) has returned an unsatisfiable result
\* with an empty final tableau.
C25_Witness ==
  /\ pc = "idle"
  /\ Len(results) = 2
  /\ ~results[2].satisfiable
  /\ results[2].finalTableau.states = <<>>
  /\ results[2].pretableau.solidEdges # <<>>
  /\ \E k \in DOMAIN results[2].eliminations : results[2].eliminations[k].rule = "E2"

\* The agents of a coalition are in strictly increasing order.
StrictlySorted(cl) ==
  \A i, j \in DOMAIN cl :
    i < j => \E m, n \in DOMAIN AgentOrder :
               m < n /\ AgentOrder[m] = cl[i] /\ AgentOrder[n] = cl[j]

\* C26: D(A, phi) and C(A, phi) with an empty A throw and yield no formula;
\* with a non-empty A the formula stores the agents of A sorted and without
\* duplicates, and normalizing the stored coalition leaves it unchanged.
C26_CoalitionNormalized ==
  api.op \in {"D", "C"} =>
    IF api.args[1] = <<>>
    THEN api.result = Thrown("Coalition must be non-empty")
    ELSE /\ api.result[1] = api.op
         /\ api.result[3] = Construct(api.args[2])
         /\ StrictlySorted(api.result[2])
         /\ Range(api.result[2]) = Range(api.args[1])
         /\ normalizeCoalition(api.result[2]) = api.result[2]

\* C(<<b, a, b>>, phi) has stored the coalition <<a, b>>.
C26_Witness ==
  /\ api.op = "C"
  /\ api.args[1] = <<"b", "a", "b">>
  /\ api.result[2] = <<"a", "b">>

\* The characters of 'KaKb p'.
KaKbP == <<"K", "a", "K", "b", " ", "p">>

\* C28: 'KaKb p' parses to D_{a}(D_{b} p) and '~KaKb p' to its negation:
\* the agent name of the first K ends before the next K.
C28_NestedKnowledge ==
  api.op = "parseFormula" =>
    /\ api.args[1] = KaKbP =>
         api.result = D(<<"a">>, D(<<"b">>, Atom("p")))
    /\ api.args[1] = <<"~">> \o KaKbP =>
         api.result = Not(D(<<"a">>, D(<<"b">>, Atom("p"))))

\* C27: in interactive mode the process ends only when the user enters
\* 'quit' or 'exit' or when input closes; after solving a formula or
\* reporting a parse error the loop prompts for the next line.
C27_ReadEvalLoop ==
  cli.at \in {"closed", "eof", "exited"} =>
    \/ cli.at = "closed" /\ Join(trim(cli.line)) \in {"quit", "exit"}
    \/ cli.at = "eof" /\ cli.stdin = <<>>

\* Every formula of the set is in ecl(theta).
WithinClosure(fs, ecl) == \A i \in DOMAIN fs : FSHas(ecl, fs[i][2])

\* The sets of formulas built from theta so far: those of the prestates and
\* states, and those of the family under expansion.
SetsBuilt ==
  [i \in DOMAIN pretableau.prestates |-> pretableau.prestates[i].formulas]
    \o [i \in DOMAIN pretableau.states |-> pretableau.states[i].formulas]
    \o expansion.family \o expansion.nextFamily

\* C29 as stated: every formula the expansion rules add to a set, and so
\* every formula of every prestate and state built from theta, is in
\* ecl(theta).
C29_FormulasInExtendedClosure ==
  theta # NoTheta =>
    LET inEcl(ecl) == \A s \in DOMAIN SetsBuilt : WithinClosure(SetsBuilt[s], ecl)
    IN inEcl(extendedClosure(theta))

\* C29, amended: every formula of every set built from theta is in
\* ecl(theta) or is a formula whose negation is in cl(theta).
C29_FormulasInClosureUpToNegation ==
  theta # NoTheta =>
    LET inEcl(ecl, cl) ==
          \A s \in DOMAIN SetsBuilt :
            \A i \in DOMAIN SetsBuilt[s] :
              \/ FSHas(ecl, SetsBuilt[s][i][2])
              \/ FSHas(cl, Not(SetsBuilt[s][i][2]))
    IN inEcl(extendedClosure(theta), closure(theta))

\* A finished pretableau in which the cut rule has added a formula that is
\* not in ecl(theta).
C29_Witness ==
  /\ pc = "PR"
  /\ Len(pretableau.states) > 2
  /\ Len(pretableau.prestates) > 1
  /\ ~C29_FormulasInExtendedClosure

\* C30: rule SR is applied to each prestate exactly once: a prestate that
\* awaits SR has not been expanded before (no dashed edge leaves it) and is
\* not a second time in the queue, because DR enqueues only new prestates.
C30_SROncePerPrestate ==
  (pc = "SR" /\ queues.i <= Len(queues.prestatesToExpand)) =>
    LET psId == queues.prestatesToExpand[queues.i]
    IN /\ \A e \in DOMAIN pretableau.dashedEdges : pretableau.dashedEdges[e].from # psId
       /\ \A j \in 1..(queues.i - 1) : queues.prestatesToExpand[j] # psId

\* The formulas rule (DR) gives the prestate for the diamond chi = ~D_A phi
\* of the state Delta, as a set: ~phi, the boxes D_A' psi of Delta with A'
\* within A, its diamonds ~D_A' psi with A' within A other than chi, and its
\* eventualities ~C_A' psi with A' meeting A.
DRFormulas(Delta, chi) ==
  LET A == Range(chi[2][2])
      members == {Delta[i][2] : i \in DOMAIN Delta}
  IN {Not(chi[2][3])}
       \cup {f \in members : f[1] = "D" /\ Range(f[2]) \subseteq A}
       \cup {f \in members : /\ f[1] = "not" /\ f[2][1] = "D"
                              /\ Range(f[2][2]) \subseteq A
                              /\ f # chi}
       \cup {f \in members : /\ f[1] = "not" /\ f[2][1] = "C"
                              /\ Range(f[2][2]) \cap A # {}}

\* C31: the prestate at the end of a solid edge Delta -chi-> Gamma has
\* exactly the formulas rule (DR) gives for Delta and chi.
C31_PrestateOfSolidEdge ==
  \A e \in DOMAIN pretableau.solidEdges :
    LET edge == pretableau.solidEdges[e]
        Gamma == MapGet(pretableau.prestates, edge.to).formulas
        Delta == MapGet(pretableau.states, edge.from).formulas
    IN {Gamma[i][2] : i \in DOMAIN Gamma} = DRFormulas(Delta, edge.label)

\* A solid edge whose prestate has taken a box, a diamond or eventuality,
\* and ~phi from its state.
C31_Witness ==
  \E e \in DOMAIN pretableau.solidEdges :
    LET Gamma == MapGet(pretableau.prestates, pretableau.solidEdges[e].to).formulas
    IN /\ Len(Gamma) >= 3
       /\ \E i \in DOMAIN Gamma : Gamma[i][2][1] = "D"
       /\ \E i \in 2..Len(Gamma) : Gamma[i][2][1] = "not"

\* C32: in the finished pretableau every state has exactly one solid edge
\* for each of its diamonds, and no solid edge whose label is not one of its
\* formulas.
C32_OneSolidEdgePerDiamond ==
  pc = "PR" =>
    \A i \in DOMAIN pretableau.states :
      LET Delta == pretableau.states[i]
          leaving == {e \in DOMAIN pretableau.solidEdges :
                        pretableau.solidEdges[e].from = Delta.id}
      IN /\ \A k \in DOMAIN Delta.formulas :
              isDiamond(Delta.formulas[k][2]) =>
                Cardinality({e \in leaving :
                   pretableau.solidEdges[e].label = Delta.formulas[k][2]}) = 1
         /\ \A e \in leaving :
              \E k \in DOMAIN Delta.formulas :
                Delta.formulas[k][2] = pretableau.solidEdges[e].label

\* A finished pretableau with a state that has two diamonds, and a state
\* that two prestates expand to.
C32_Witness ==
  /\ pc = "PR"
  /\ \E i \in DOMAIN pretableau.states :
       Cardinality({k \in DOMAIN pretableau.states[i].formulas :
                      isDiamond(pretableau.states[i].formulas[k][2])}) >= 2
  /\ \E d, e \in DOMAIN pretableau.dashedEdges :
       /\ pretableau.dashedEdges[d].to = pretableau.dashedEdges[e].to
       /\ pretableau.dashedEdges[d].from # pretableau.dashedEdges[e].from

\* The least set M of state ids of (sts, eds) for the eventuality zeta =
\* ~C_A phi: every state with ~phi is in M, and a state with zeta is in M
\* when an edge labelled ~D_B psi, B meeting A, leads from it into M.
E2Grow(M, sts, eds, zeta) ==
  LET ids == {sts[i].id : i \in DOMAIN sts}
      has(id, f) == \E i \in DOMAIN sts :
                      /\ sts[i].id = id
                      /\ \E k \in DOMAIN sts[i].formulas : sts[i].formulas[k][2] = f
  IN M \cup {id \in ids : has(id, Not(zeta[2][3]))}
       \cup {id \in ids :
              /\ has(id, zeta)
              /\ \E e \in DOMAIN eds :
                   /\ eds[e].from = id
                   /\ eds[e].to \in M
                   /\ eds[e].to \in ids
                   /\ eds[e].label[1] = "not"
                   /\ eds[e].label[2][1] = "D"
                   /\ Range(eds[e].label[2][2]) \cap Range(zeta[2][2]) # {}}

RECURSIVE E2Least(_, _, _, _)
E2Least(M, sts, eds, zeta) ==
  LET next == E2Grow(M, sts, eds, zeta)
  IN IF next = M THEN M ELSE E2Least(next, sts, eds, zeta)

\* C33: one application of (E2) for zeta removes exactly the states that
\* contain zeta and lie outside the least marked set M; the other states
\* stay, in their order.
C33_E2RemovesUnmarked ==
  [][pc = "E2" /\ pc' = "E1" =>
       LET zeta == cycle.allEventualities[cycle.i]
           M == E2Least({}, states, edges, zeta)
           stays(st) ==
             ~(/\ \E k \in DOMAIN st.formulas : st.formulas[k][2] = zeta
               /\ st.id \notin M)
       IN states' = SelectSeq(states, stays)]_vars

\* (E2) has just removed a state for zeta, and a state with zeta that has
\* no ~phi of its own is still there: it was marked along an edge.
C33_Witness ==
  /\ pc = "E1"
  /\ eliminations # <<>>
  /\ LET last == eliminations[Len(eliminations)]
         zeta == cycle.allEventualities[cycle.i]
     IN /\ last.rule = "E2"
        /\ last.formula = zeta
        /\ \E i \in DOMAIN states :
             /\ FSHas(states[i].formulas, zeta)
             /\ ~FSHas(states[i].formulas, Not(zeta[2][3]))

\* The formulas of a formula set, as a set.
MembersOf(fs) == {fs[k][2] : k \in DOMAIN fs}

\* rule 3 is applicable to f in the set with members S: f is ~C_A psi, ~psi
\* is not in S, and some other beta-component ~D_a C_A psi, a in A, is.
Rule3Case(S, f) ==
  /\ f \in S
  /\ f[1] = "not" /\ f[2][1] = "C"
  /\ Not(f[2][3]) \notin S
  /\ \E a \in Range(f[2][2]) : Not(<<"D", <<a>>, f[2]>>) \in S

\* C34: within one expansion call rule 3 fires at most once for a pair
\* (set key, formula key): a pair it has fired for is kept until the call
\* returns, a set is added as a sibling only together with a pair that was
\* not yet recorded, and a set whose cases are all recorded adds nothing.
\* When it fires for ~C_A psi in Delta, Delta itself is kept in the family
\* and Delta with ~psi is added as a sibling unless that set contains a
\* formula and its negation; siblings and kept sets are in the family of
\* the next pass.
C34_Rule3OncePerPair ==
  [][/\ expansion.at \in {"for", "while"} =>
          expansion.rule3Applied \subseteq expansion'.rule3Applied
     /\ (expansion.at = "for" /\ expansion.i <= Len(expansion.family)
           /\ expansion'.at = "for") =>
          LET Delta == expansion.family[expansion.i]
              S == MembersOf(Delta)
              fresh == expansion'.rule3Applied \ expansion.rule3Applied
              fired == {f \in S : <<FSKey(Delta), formulaKey(f)>> \in fresh}
              added == {MembersOf(expansion'.extras[n]) :
                          n \in (Len(expansion.extras) + 1)..Len(expansion'.extras)}
              inconsistent(T) == \E g \in T : Not(g) \in T
          IN /\ \A pr \in fresh : pr[1] = FSKey(Delta)
             /\ Cardinality(fired) = Cardinality(fresh)
             /\ Len(expansion'.extras) - Len(expansion.extras) <= Cardinality(fresh)
             /\ \A f \in fired :
                  /\ Rule3Case(S, f)
                  /\ expansion'.nextFamily = Append(expansion.nextFamily, Delta)
                  /\ (S \cup {Not(f[2][3])} \in added)
                       <=> ~inconsistent(S \cup {Not(f[2][3])})
             /\ (\A f \in S : Rule3Case(S, f) =>
                      <<FSKey(Delta), formulaKey(f)>> \in expansion.rule3Applied)
                  => expansion'.extras = expansion.extras
     /\ (expansion.at = "for" /\ expansion'.at = "while") =>
          \A n \in DOMAIN (expansion.nextFamily \o expansion.extras) :
            \E m \in DOMAIN expansion'.family :
              MembersOf(expansion'.family[m])
                = MembersOf((expansion.nextFamily \o expansion.extras)[n])
    ]_vars

\* Rule 3 has fired in this pass: a sibling waits in extras, its set was
\* kept, and the pair is recorded.
C34_Witness ==
  /\ expansion.at = "for"
  /\ expansion.extras # <<>>
  /\ \E n \in DOMAIN expansion.nextFamily :
       \E f \in MembersOf(expansion.nextFamily[n]) :
         /\ Rule3Case(MembersOf(expansion.nextFamily[n]), f)
         /\ <<FSKey(expansion.nextFamily[n]), formulaKey(f)>> \in expansion.rule3Applied
         /\ \E x \in DOMAIN expansion.extras :
              MembersOf(expansion.extras[x])
                = MembersOf(expansion.nextFamily[n]) \cup {Not(f[2][3])}

\* Sub(f): the subformulas of f, f included.
RECURSIVE SubOf(_)
SubOf(f) ==
  {f} \cup (CASE f[1] = "atom" -> {}
             [] f[1] = "not" -> SubOf(f[2])
             [] f[1] = "and" -> SubOf(f[2]) \cup SubOf(f[3])
             [] OTHER -> SubOf(f[3]))

\* The coalitions E of the diamonds ~D_E eps of S, as sets of agents.
DiamondCoalitions(S) ==
  {Range(f[2][2]) : f \in {g \in S : g[1] = "not" /\ g[2][1] = "D"}}

\* psi is D_B delta or ~D_B delta / psi is ~C_B delta, with B as a set.
IsDOrNegD(psi, B) ==
  \/ psi[1] = "D" /\ Range(psi[2]) = B
  \/ psi[1] = "not" /\ psi[2][1] = "D" /\ Range(psi[2][2]) = B

IsNegC(psi, B) == psi[1] = "not" /\ psi[2][1] = "C" /\ Range(psi[2][2]) = B

\* The coalitions a formula can carry.
CoalitionSets == SUBSET Range(AgentOrder) \ {{}}

\* (C11) or (C12) for the cut on chi = D_A phi through psi in S.
C11orC12(S, psi, chi) ==
  LET A == Range(chi[2])
  IN \E B \in CoalitionSets, E \in DiamondCoalitions(S) :
       \/ IsDOrNegD(psi, B) /\ A \subseteq E /\ B \subseteq E
       \/ IsNegC(psi, B) /\ A \subseteq E /\ B \cap E # {}

\* (C21) or (C22) for the cut on chi = C_A phi through psi in S.
C21orC22(S, psi, chi) ==
  LET A == Range(chi[2])
  IN \E B \in CoalitionSets, E \in DiamondCoalitions(S) :
       \/ IsDOrNegD(psi, B) /\ B \subseteq E /\ A \cap E # {}
       \/ IsNegC(psi, B) /\ A \cap E # {} /\ B \cap E # {}

\* The formulas of the given kind that a cut on the set S can be about:
\* subformulas of members of S, neither in S nor negated in S.
CutCandidates(S, kind) ==
  {chi \in UNION {SubOf(psi) : psi \in S} :
     chi[1] = kind /\ chi \notin S /\ Not(chi) \notin S}

\* This step of a call with restricted cuts replaces family[i] by its two
\* branches with chi and with ~chi.
CutMadeOn(chi) ==
  /\ expansion.at = "for" /\ expansion.i <= Len(expansion.family)
  /\ expansion.enableCuts /\ expansion.useRestrictedCuts
  /\ Len(expansion'.nextFamily) = Len(expansion.nextFamily) + 2
  /\ LET S == MembersOf(expansion.family[expansion.i])
         n == Len(expansion.nextFamily)
     IN /\ MembersOf(expansion'.nextFamily[n + 1]) = S \cup {chi}
        /\ MembersOf(expansion'.nextFamily[n + 2]) = S \cup {Not(chi)}

\* The sets of a family returned by a call with restricted cuts.
ReturnedRestricted ==
  IF expansion.at = "return" /\ expansion.enableCuts /\ expansion.useRestrictedCuts
  THEN {MembersOf(expansion.family[n]) : n \in DOMAIN expansion.family}
  ELSE {}

\* C35: with restricted cuts, a cut on chi = D_A phi, a subformula of some
\* psi of Delta with neither chi nor ~chi in Delta, is made only through a
\* psi that is D_B delta or ~D_B delta with some ~D_E eps in Delta, A and B
\* within E (C11), or ~C_B delta with some ~D_E eps in Delta, A within E
\* and B meeting E (C12); and a set is returned only when no psi of it
\* enables such a cut.
C35_RestrictedCutOnD ==
  [][/\ expansion.at = "for" /\ expansion.i <= Len(expansion.family) =>
          LET S == MembersOf(expansion.family[expansion.i])
          IN \A chi \in CutCandidates(S, "D") :
               CutMadeOn(chi) =>
                 \E psi \in S : chi \in SubOf(psi) /\ C11orC12(S, psi, chi)
     /\ \A S \in ReturnedRestricted :
          \A chi \in CutCandidates(S, "D") :
            \A psi \in S : chi \in SubOf(psi) => ~C11orC12(S, psi, chi)
    ]_vars

\* A call with restricted cuts has just cut on a D_A phi.
C35_Witness ==
  /\ expansion.at = "for" /\ expansion.i > 1
  /\ expansion.enableCuts /\ expansion.useRestrictedCuts
  /\ Len(expansion.nextFamily) >= 2
  /\ LET S == MembersOf(expansion.family[expansion.i - 1])
         n == Len(expansion.nextFamily)
     IN \E chi \in CutCandidates(S, "D") :
          /\ MembersOf(expansion.nextFamily[n - 1]) = S \cup {chi}
          /\ MembersOf(expansion.nextFamily[n]) = S \cup {Not(chi)}

\* C36: with restricted cuts, a cut on chi = C_A phi, a subformula of some
\* psi of Delta with neither chi nor ~chi in Delta, is made only through a
\* psi that is D_B delta or ~D_B delta with some ~D_E eps in Delta, B
\* within E and A meeting E (C21), or ~C_B delta with some ~D_E eps in
\* Delta, A and B both meeting E (C22); and a set is returned only when no
\* psi of it enables such a cut.
C36_RestrictedCutOnC ==
  [][/\ expansion.at = "for" /\ expansion.i <= Len(expansion.family) =>
          LET S == MembersOf(expansion.family[expansion.i])
          IN \A chi \in CutCandidates(S, "C") :
               CutMadeOn(chi) =>
                 \E psi \in S : chi \in SubOf(psi) /\ C21orC22(S, psi, chi)
     /\ \A S \in ReturnedRestricted :
          \A chi \in CutCandidates(S, "C") :
            \A psi \in S : chi \in SubOf(psi) => ~C21orC22(S, psi, chi)
    ]_vars

\* A call with restricted cuts has just cut on a C_A phi.
C36_Witness ==
  /\ expansion.at = "for" /\ expansion.i > 1
  /\ expansion.enableCuts /\ expansion.useRestrictedCuts
  /\ Len(expansion.nextFamily) >= 2
  /\ LET S == MembersOf(expansion.family[expansion.i - 1])
         n == Len(expansion.nextFamily)
     IN \E chi \in CutCandidates(S, "C") :
          /\ MembersOf(expansion.nextFamily[n - 1]) = S \cup {chi}
          /\ MembersOf(expansion.nextFamily[n]) = S \cup {Not(chi)}

\* The state has no diamond ~D_A phi and no eventuality ~C_A phi.
NoDiamondNoEventuality(st) ==
  \A f \in MembersOf(st.formulas) : ~(f[1] = "not" /\ f[2][1] \in {"D", "C"})

\* The formula has no D and no C operator.
RECURSIVE NoDNoC(_)
NoDNoC(f) ==
  CASE f[1] = "atom" -> TRUE
    [] f[1] = "not" -> NoDNoC(f[2])
    [] f[1] = "and" -> NoDNoC(f[2]) /\ NoDNoC(f[3])
    [] OTHER -> FALSE

\* C37: no step of Phase 3 removes a state that has no diamond and no
\* eventuality, and no elimination record names one; a call on an input
\* without D and C returns a final tableau equal to its initial tableau and
\* an empty elimination trace.
C37_PlainStatesSurvive ==
  [][/\ pc \in {"E1only", "cycle", "E2", "E1"} =>
          /\ \A i \in DOMAIN states :
               NoDiamondNoEventuality(states[i]) =>
                 \E j \in DOMAIN states' : states'[j] = states[i]
          /\ \A r \in DOMAIN eliminations' :
               \E f \in MembersOf(eliminations'[r].stateFormulas) :
                 f[1] = "not" /\ f[2][1] \in {"D", "C"}
     /\ \A n \in DOMAIN results' :
          NoDNoC(results'[n].inputFormula) =>
            /\ results'[n].finalTableau = results'[n].initialTableau
            /\ results'[n].eliminations = <<>>
    ]_vars

\* A returned tableau from which Phase 3 eliminated states and in which a
\* state without diamond and eventuality is left.
C37_Witness ==
  \E n \in DOMAIN results :
    /\ results[n].eliminations # <<>>
    /\ \E i \in DOMAIN results[n].finalTableau.states :
         NoDiamondNoEventuality(results[n].finalTableau.states[i])

\* C38: every set of the family of an expansion of Gamma, while it runs and
\* when it has returned, contains every formula of Gamma; every state at
\* the end of a dashed edge contains every formula of the prestate the edge
\* starts from; every state expanded from the initial prestate contains
\* theta.
C38_ExpansionsAreSupersets ==
  /\ \A n \in DOMAIN expansion.family :
       MembersOf(expansion.gamma) \subseteq MembersOf(expansion.family[n])
  /\ \A e \in DOMAIN pretableau.dashedEdges :
       LET edge == pretableau.dashedEdges[e]
           Gamma == MapGet(pretableau.prestates, edge.from)
           Delta == MapGet(pretableau.states, edge.to)
       IN /\ MembersOf(Gamma.formulas) \subseteq MembersOf(Delta.formulas)
          /\ Gamma = pretableau.prestates[1] => theta \in MembersOf(Delta.formulas)

\* The expansion of a prestate of several formulas has returned several
\* sets larger than the prestate, and a state expanded from the initial
\* prestate has more formulas than theta.
C38_Witness ==
  /\ pc = "SR.expand"
  /\ expansion.at = "return"
  /\ Len(expansion.gamma) >= 2
  /\ Len(expansion.family) >= 2
  /\ \A n \in DOMAIN expansion.family : Len(expansion.family[n]) > Len(expansion.gamma)
  /\ \E e \in DOMAIN pretableau.dashedEdges :
       /\ pretableau.dashedEdges[e].from = pretableau.prestates[1].id
       /\ Len(MapGet(pretableau.states, pretableau.dashedEdges[e].to).formulas) >= 3

\* C39: Phase 3 leaves its input alone. No step of Phase 3 changes the
\* pretableau or the initial tableau; in every returned result the initial
\* tableau has every state of the pretableau, with its id and formulas, and
\* an edge for every solid edge into a prestate and every dashed edge out
\* of it, whether or not states were eliminated; and every state of the
\* final tableau is a state of the initial tableau, id and formulas alike.
C39_Phase3WorksOnCopy ==
  [][/\ pc \in {"E1only", "cycle", "E2", "E1", "verdict"} =>
          pretableau' = pretableau /\ initialTableau' = initialTableau
     /\ \A n \in DOMAIN results' :
          LET r == results'[n]
              p == r.pretableau
              t == r.initialTableau
          IN /\ Range(p.states) \subseteq Range(t.states)
             /\ \A x \in DOMAIN p.solidEdges, y \in DOMAIN p.dashedEdges :
                  p.solidEdges[x].to = p.dashedEdges[y].from =>
                    \E e \in DOMAIN t.edges :
                      /\ t.edges[e].from = p.solidEdges[x].from
                      /\ t.edges[e].label = p.solidEdges[x].label
                      /\ t.edges[e].to = p.dashedEdges[y].to
             /\ Range(r.finalTableau.states) \subseteq Range(t.states)
             /\ Len(r.finalTableau.states) + Len(r.eliminations) = Len(t.states)
    ]_vars

\* A result whose Phase 3 eliminated some states of an initial tableau
\* with edges and left others.
C39_Witness ==
  \E n \in DOMAIN results :
    /\ results[n].eliminations # <<>>
    /\ results[n].finalTableau.states # <<>>
    /\ results[n].initialTableau.edges # <<>>
    /\ Len(results[n].finalTableau.states) < Len(results[n].initialTableau.states)
    /\ Len(results[n].initialTableau.states) = Len(results[n].pretableau.states)

\* No two positions of the edge sequence hold the same triple.
NoDuplicateEdge(es) ==
  \A i, j \in DOMAIN es :
    i # j => <<es[i].from, es[i].to, es[i].label>> # <<es[j].from, es[j].to, es[j].label>>

\* C40: the edge sequence of the initial tableau holds no triple (from, to,
\* label) twice, as soon as rule (PR) has built it and in every returned
\* result.
C40_NoDuplicateEdges ==
  /\ NoDuplicateEdge(initialTableau.edges)
  /\ \A n \in DOMAIN results : NoDuplicateEdge(results[n].initialTableau.edges)

\* An initial tableau with edges, built from a pretableau in which two
\* solid edges lead to one prestate and that prestate has the same dashed
\* edge twice.
C40_Witness ==
  /\ pc \in {"E1only", "cycle", "E2", "E1", "verdict"}
  /\ initialTableau.edges # <<>>
  /\ \E x, y \in DOMAIN pretableau.solidEdges :
       /\ x # y
       /\ pretableau.solidEdges[x].to = pretableau.solidEdges[y].to
       /\ \E c, d \in DOMAIN pretableau.dashedEdges :
            /\ c # d
            /\ pretableau.dashedEdges[c] = pretableau.dashedEdges[d]
            /\ pretableau.dashedEdges[c].from = pretableau.solidEdges[x].to

====
